---- MODULE Spec2Model ----
(***************************************************************************)
(* A model of the corpus aggregation pipeline of build.py: the boilerplate *)
(* stripper, the format extractors, the tokenizer, the per-document worker *)
(* and the parallel aggregator (multiprocessing.Pool.imap_unordered with   *)
(* its single-threaded reduction loop).                                    *)
(*                                                                         *)
(* Text is a sequence of characters; a character is a one-element string.  *)
(* The sixteen non-ASCII letters of _WORD_RE are written by name           *)
(* ("a_ring" is U+00E5, "A_uml" is U+00C4, ...): each name is ONE          *)
(* character of the text.                                                  *)
(***************************************************************************)
EXTENDS Integers, Sequences, FiniteSets, TLC

\* --------------------------------------------------------------------------
\* Program constants
\* --------------------------------------------------------------------------
\* build.py:191  len(w) > 40
MaxTokenLen == 40
\* build.py:204  len(text) < 100
MinTextLen == 100
\* build.py:241  num_workers * 4
ChunkFactor == 4

\* build.py:53-59, in priority order
START_MARKERS ==
    << <<"*","*","*"," ","S","T","A","R","T"," ","O","F"," ","T","H","I","S"," ","P","R","O","J","E","C","T"," ","G","U","T","E","N","B","E","R","G">>,
       <<"*","*","*"," ","S","T","A","R","T"," ","O","F"," ","T","H","E"," ","P","R","O","J","E","C","T"," ","G","U","T","E","N","B","E","R","G">>,
       <<"*","*","*","S","T","A","R","T"," ","O","F"," ","T","H","I","S"," ","P","R","O","J","E","C","T"," ","G","U","T","E","N","B","E","R","G">>,
       <<"*","*","*"," ","S","T","A","R","T"," ","O","F"," ","T","H","I","S">>,
       <<"*","E","N","D","*","T","H","E"," ","S","M","A","L","L"," ","P","R","I","N","T">> >>

\* build.py:60-67, in priority order
END_MARKERS ==
    << <<"*","*","*"," ","E","N","D"," ","O","F"," ","T","H","I","S"," ","P","R","O","J","E","C","T"," ","G","U","T","E","N","B","E","R","G">>,
       <<"*","*","*"," ","E","N","D"," ","O","F"," ","T","H","E"," ","P","R","O","J","E","C","T"," ","G","U","T","E","N","B","E","R","G">>,
       <<"*","*","*","E","N","D"," ","O","F"," ","T","H","I","S"," ","P","R","O","J","E","C","T"," ","G","U","T","E","N","B","E","R","G">>,
       <<"*","*","*"," ","E","N","D"," ","O","F"," ","T","H","I","S">>,
       <<"E","n","d"," ","o","f"," ","P","r","o","j","e","c","t"," ","G","u","t","e","n","b","e","r","g">>,
       <<"E","n","d"," ","o","f"," ","t","h","e"," ","P","r","o","j","e","c","t"," ","G","u","t","e","n","b","e","r","g">> >>

\* build.py:89-109
ENGLISH_STOPWORDS ==
    { <<"t","h","e">>, <<"o","f">>, <<"a">>, <<"a","n","d">>, <<"t","o">>, <<"i","n">>,
      <<"t","h","a","t">>, <<"w","a","s">>, <<"h","e">>, <<"i","t">>, <<"h","i","s">>,
      <<"i","s">>, <<"w","i","t","h">>, <<"f","o","r">>, <<"a","s">>, <<"h","a","d">>,
      <<"h","e","r">>, <<"n","o","t">>, <<"b","u","t">>, <<"a","t">>, <<"b","e">>,
      <<"t","h","i","s">>, <<"h","a","v","e">>, <<"f","r","o","m">>, <<"o","r">>, <<"b","y">>,
      <<"w","h","i","c","h">>, <<"y","o","u">>, <<"a","n">>, <<"w","e","r","e">>,
      <<"a","r","e">>, <<"b","e","e","n">>, <<"h","a","s">>, <<"t","h","e","i","r">>,
      <<"s","a","i","d">>, <<"e","a","c","h">>, <<"s","h","e">>, <<"d","o">>, <<"i","t","s">>,
      <<"a","b","o","u","t">>, <<"w","o","u","l","d">>, <<"t","h","e","m">>, <<"m","a","d","e">>,
      <<"a","f","t","e","r">>, <<"c","o","u","l","d">>, <<"t","h","a","n">>,
      <<"o","t","h","e","r">>, <<"i","n","t","o">>, <<"m","o","r","e">>, <<"s","o","m","e">>,
      <<"t","i","m","e">>, <<"v","e","r","y">>, <<"w","h","e","n">>, <<"c","o","m","e">>,
      <<"c","a","n">>, <<"n","o">>, <<"m","o","s","t">>, <<"o","n","l","y">>,
      <<"o","v","e","r">>, <<"s","u","c","h">>, <<"a","l","s","o">>, <<"b","a","c","k">>,
      <<"s","h","o","u","l","d">>, <<"w","e","l","l">>, <<"t","h","e","s","e">>,
      <<"w","h","e","r","e">>, <<"j","u","s","t">>, <<"w","e">>, <<"w","h","a","t">>,
      <<"y","o","u","r">>, <<"o","u","t">>, <<"i","f">>, <<"w","i","l","l">>, <<"u","p">>,
      <<"m","y">>, <<"w","h","o">>, <<"s","o">>, <<"t","h","e","y">>, <<"d","i","d">>,
      <<"h","i","m">>, <<"w","o","r","k">>, <<"a","n","y">>, <<"m","a","y">>,
      <<"t","h","e","n">>, <<"f","i","r","s","t">>, <<"a","l","l">>, <<"o","u","r">>,
      <<"f","r","e","e">>, <<"s","t","a","t","e">>, <<"o","n","e">>, <<"t","w","o">>,
      <<"w","a","y">>, <<"p","r","o","j","e","c","t">>, <<"g","u","t","e","n","b","e","r","g">>,
      <<"e","b","o","o","k">>, <<"l","i","c","e","n","s","e">>,
      <<"e","l","e","c","t","r","o","n","i","c">>, <<"w","o","r","k","s">>,
      <<"f","o","u","n","d","a","t","i","o","n">>, <<"t","e","r","m","s">>, <<"c","o","p","y">>,
      <<"d","i","s","t","r","i","b","u","t","e","d">>,
      <<"r","e","d","i","s","t","r","i","b","u","t","i","o","n">>,
      <<"a","g","r","e","e","m","e","n","t">>, <<"t","r","a","d","e","m","a","r","k">>,
      <<"p","a","r","a","g","r","a","p","h">>, <<"d","o","n","a","t","i","o","n","s">>,
      <<"c","o","p","y","r","i","g","h","t">>, <<"p","e","r","m","i","s","s","i","o","n">>,
      <<"a","r","c","h","i","v","e">>, <<"d","o","n","a","t","i","o","n">>,
      <<"v","o","l","u","n","t","e","e","r","s">>, <<"c","o","m","p","l","i","a","n","c","e">>,
      <<"l","i","t","e","r","a","r","y">>, <<"d","o","m","a","i","n">>,
      <<"p","u","b","l","i","c">>, <<"r","e","f","u","n","d">>,
      <<"r","e","p","l","a","c","e","m","e","n","t">>, <<"d","e","f","e","c","t">>,
      <<"d","i","s","c","l","a","i","m","e","r">>, <<"w","a","r","r","a","n","t","i","e","s">>,
      <<"i","n","c","l","u","d","i","n","g">>, <<"l","i","m","i","t","e","d">>,
      <<"m","e","r","c","h","a","n","t","a","b","i","l","i","t","y">>, <<"w","w","w">>,
      <<"h","t","t","p">>, <<"o","r","g">>, <<"h","t","m">>, <<"t","x","t">>, <<"u","t","f">> }

\* build.py:111-118
SHARED_WORDS ==
    { <<"i">>, <<"d","e">>, <<"e","n">>, <<"s","e">>, <<"m","a","n">>, <<"n","u">>, <<"d","u">>,
      <<"v","i">>, <<"d","e","n">>, <<"h","a","n">>, <<"h","o","n">>, <<"s","i","n">>,
      <<"a","n">>, <<"u","n","d","e","r">>, <<"i","n">>, <<"f","o","r","t">>,
      <<"h","a","n","d">>, <<"m","o","d","e","r","n">>, <<"b","a","r","n">>, <<"s","a","l","t">>,
      <<"s","a","n","d">>, <<"b","e","r","g">>, <<"i","s">>, <<"f","i","n">>,
      <<"h","a","l","l">>, <<"f","u","l","l">>, <<"l","a","n","d">>, <<"r","u","m">>,
      <<"f","o","l","k">>, <<"a","r","m">>, <<"f","o","r","m">>, <<"p","l","a","n">>,
      <<"f","i","l","m">>, <<"r","i","n","g">>, <<"s","t","a","r","t">>, <<"a","l","l">>,
      <<"o","r","g","a","n">>, <<"r","e","s","t">>, <<"l","e","v","e","r">>, <<"h","o","r","n">>,
      <<"m","a","s","k">>, <<"n","o","r">>, <<"o","r","d","e","r">> }

\* build.py:121, the lowercase half of the class of _WORD_RE
LowerLetters ==
    <<"a","b","c","d","e","f","g","h","i","j","k","l","m","n",
      "o","p","q","r","s","t","u","v","w","x","y","z",
      "a_ring","a_uml","o_uml","e_acute","e_grave","u_uml","ae_lig","o_slash">>

\* build.py:121, the uppercase half, letter i of it lowercases to letter i above
UpperLetters ==
    <<"A","B","C","D","E","F","G","H","I","J","K","L","M","N",
      "O","P","Q","R","S","T","U","V","W","X","Y","Z",
      "A_ring","A_uml","O_uml","E_acute","E_grave","U_uml","AE_lig","O_slash">>

\* --------------------------------------------------------------------------
\* Strings
\* --------------------------------------------------------------------------
\* n copies of character c
Rep(c, n) == [i \in 1..n |-> c]

\* the least element of a non-empty set of integers
SetMin(S) == CHOOSE x \in S : \A y \in S : x <= y

\* str.find(m, i): the lowest 0-based index >= i at which m occurs in s, or -1
FindFrom(s, m, i) ==
    LET hits == { p \in i..(Len(s) - Len(m)) :
                    s[p + 1] = m[1] /\ SubSeq(s, p + 1, p + Len(m)) = m } IN
    IF hits = {} THEN -1 ELSE SetMin(hits)

RECURSIVE RunsFrom(_, _, _)
\* the maximal runs of s over the positions G that begin at or after position i,
\* left to right
RunsFrom(s, G, i) ==
    LET starts == { j \in G : j >= i /\ (j - 1) \notin G } IN
    IF starts = {} THEN <<>>
    ELSE LET b == SetMin(starts)
             e == SetMin({ j \in b..Len(s) : (j + 1) \notin G })
         IN <<SubSeq(s, b, e)>> \o RunsFrom(s, G, e + 1)

\* the maximal runs of consecutive positions of s that lie in G, as strings
RunsOf(s, G) == RunsFrom(s, G, 1)

\* str.find(m)
Find(s, m) == FindFrom(s, m, 0)

\* s[i:] and s[:i] for 0 <= i
SliceFrom(s, i) == SubSeq(s, i + 1, Len(s))
SliceTo(s, i) == SubSeq(s, 1, i)

UpperSet == {UpperLetters[i] : i \in DOMAIN UpperLetters}
LowerSet == {LowerLetters[i] : i \in DOMAIN LowerLetters}

\* the class [a-zA-Z] in place of the class of _WORD_RE
WordClass_Ascii == { LowerLetters[i] : i \in 1..26 } \cup { UpperLetters[i] : i \in 1..26 }

\* the character class of _WORD_RE
WordClass == LowerSet \cup UpperSet

LowerOf == [c \in UpperSet |-> LowerLetters[CHOOSE i \in DOMAIN UpperLetters : UpperLetters[i] = c]]

\* str.lower() on one character: the letters of the class fold, nothing else changes
LowerChar(c) == IF c \in UpperSet THEN LowerOf[c] ELSE c

\* str.lower()
LowerText(s) == [i \in 1..Len(s) |-> LowerChar(s[i])]

\* --------------------------------------------------------------------------
\* GUTENBERG HEADER/FOOTER STRIPPING
\* --------------------------------------------------------------------------
RECURSIVE StripStartLoop(_, _)
\* text.find("\n") in place of text.find("\n", idx): the newline is searched
\* from the beginning of the text
StripStartLoop_NlFromZero(text, j) ==
    IF j > Len(START_MARKERS) THEN text
    ELSE LET idx == Find(text, START_MARKERS[j]) IN
         IF idx # -1
         THEN LET nl == FindFrom(text, <<"\n">>, 0) IN
              IF nl # -1 THEN SliceFrom(text, nl + 1) ELSE text
         ELSE StripStartLoop(text, j + 1)

\* for marker in _START_MARKERS: ... break
StripStartLoop(text, j) ==
    IF j > Len(START_MARKERS) THEN text
    ELSE LET idx == Find(text, START_MARKERS[j]) IN
         IF idx # -1
         THEN LET nl == FindFrom(text, <<"\n">>, idx) IN
              IF nl # -1 THEN SliceFrom(text, nl + 1) ELSE text
         ELSE StripStartLoop(text, j + 1)

RECURSIVE StripEndLoop(_, _)
\* for marker in _END_MARKERS: ... break
StripEndLoop(text, j) ==
    IF j > Len(END_MARKERS) THEN text
    ELSE LET idx == Find(text, END_MARKERS[j]) IN
         IF idx # -1 THEN SliceTo(text, idx)
         ELSE StripEndLoop(text, j + 1)

strip_gutenberg_boilerplate(text) == StripEndLoop(StripStartLoop(text, 1), 1)

\* --------------------------------------------------------------------------
\* collections.Counter: a dict, so an insertion-ordered sequence of
\* (key k, count n) with distinct keys
\* --------------------------------------------------------------------------
EmptyCounter == <<>>

CounterKeys(c) == {c[i].k : i \in DOMAIN c}

\* c[k], 0 for a missing key (Counter.__missing__)
CounterGet(c, k) ==
    IF k \in CounterKeys(c) THEN c[CHOOSE i \in DOMAIN c : c[i].k = k].n ELSE 0

\* c[k] = v: an existing key keeps its place, a new key goes last
CounterSet(c, k, v) ==
    IF k \in CounterKeys(c)
    THEN [i \in DOMAIN c |-> IF c[i].k = k THEN [k |-> k, n |-> v] ELSE c[i]]
    ELSE Append(c, [k |-> k, n |-> v])

RECURSIVE SumCounts(_, _)
SumCounts(c, i) == IF i > Len(c) THEN 0 ELSE c[i].n + SumCounts(c, i + 1)

\* sum(c.values())
CounterTotal(c) == SumCounts(c, 1)

RECURSIVE UpdateLoop(_, _, _)
\* dict.update in place of Counter.update: a count is overwritten, not added
UpdateLoop_Overwrite(c, sub, i) ==
    IF i > Len(sub) THEN c
    ELSE UpdateLoop(CounterSet(c, sub[i].k, sub[i].n), sub, i + 1)

\* setdefault in place of the addition: a key already present keeps its count
UpdateLoop_NewKeysOnly(c, sub, i) ==
    IF i > Len(sub) THEN c
    ELSE UpdateLoop(IF sub[i].k \in CounterKeys(c) THEN c ELSE CounterSet(c, sub[i].k, sub[i].n),
                    sub, i + 1)

\* Counter.update(sub): for elem, count in sub.items(): self[elem] = count + self.get(elem, 0)
UpdateLoop(c, sub, i) ==
    IF i > Len(sub) THEN c
    ELSE UpdateLoop(CounterSet(c, sub[i].k, sub[i].n + CounterGet(c, sub[i].k)), sub, i + 1)

\* an assignment in place of the update: total_counter = sub_counter
CounterUpdate_Replace(c, sub) == sub

CounterUpdate(c, sub) == UpdateLoop(c, sub, 1)

\* dict equality: the same keys with the same counts, in any order
CounterEq(a, b) ==
    /\ CounterKeys(a) = CounterKeys(b)
    /\ \A k \in CounterKeys(a) : CounterGet(a, k) = CounterGet(b, k)

\* --------------------------------------------------------------------------
\* TOKENIZER
\* --------------------------------------------------------------------------
RECURSIVE Pieces(_, _)
\* each run cut into pieces of at most MaxTokenLen characters
Pieces(runs, i) ==
    IF i > Len(runs) THEN <<>>
    ELSE [j \in 1..((Len(runs[i]) + MaxTokenLen - 1) \div MaxTokenLen) |->
            SubSeq(runs[i], (j - 1) * MaxTokenLen + 1,
                   IF j * MaxTokenLen <= Len(runs[i]) THEN j * MaxTokenLen ELSE Len(runs[i]))]
         \o Pieces(runs, i + 1)

\* the pattern with a bounded repeat, [...]{1,40}: a long run is split
FindAll_Split(s) == Pieces(RunsOf(s, { i \in 1..Len(s) : s[i] \in WordClass }), 1)

\* _WORD_RE.findall(s): the maximal runs of class characters, left to right
FindAll(s) == RunsOf(s, { i \in 1..Len(s) : s[i] \in WordClass })

RECURSIVE CountLoop(_, _, _)
\* counter[w] = 1 in place of counter[w] += 1
CountLoop_SetOne(words, i, counter) ==
    IF i > Len(words) THEN counter
    ELSE LET w == words[i] IN
         IF Len(w) < 1 \/ Len(w) > MaxTokenLen THEN CountLoop(words, i + 1, counter)
         ELSE IF w \in ENGLISH_STOPWORDS /\ w \notin SHARED_WORDS
              THEN CountLoop(words, i + 1, counter)
         ELSE CountLoop(words, i + 1, CounterSet(counter, w, 1))

\* the stoplist test without the allow-list override
CountLoop_NoAllow(words, i, counter) ==
    IF i > Len(words) THEN counter
    ELSE LET w == words[i] IN
         IF Len(w) < 1 \/ Len(w) > MaxTokenLen THEN CountLoop(words, i + 1, counter)
         ELSE IF w \in ENGLISH_STOPWORDS
              THEN CountLoop(words, i + 1, counter)
         ELSE CountLoop(words, i + 1, CounterSet(counter, w, CounterGet(counter, w) + 1))

\* the loop of tokenize_and_count over the words found
CountLoop(words, i, counter) ==
    IF i > Len(words) THEN counter
    ELSE LET w == words[i] IN
         IF Len(w) < 1 \/ Len(w) > MaxTokenLen THEN CountLoop(words, i + 1, counter)
         ELSE IF w \in ENGLISH_STOPWORDS /\ w \notin SHARED_WORDS
              THEN CountLoop(words, i + 1, counter)
         ELSE CountLoop(words, i + 1, CounterSet(counter, w, CounterGet(counter, w) + 1))

\* the tokenizer without text.lower()
tokenize_and_count_NoLower(text) == CountLoop(FindAll(text), 1, EmptyCounter)

tokenize_and_count(text) == CountLoop(FindAll(LowerText(text)), 1, EmptyCounter)

\* --------------------------------------------------------------------------
\* Documents on disk
\* --------------------------------------------------------------------------
\* text padded with spaces to n characters
Pad(text, n) == text \o Rep(" ", n - Len(text))

RECURSIVE JoinFrom(_, _, _)
JoinFrom(parts, sep, i) ==
    IF i > Len(parts) THEN <<>>
    ELSE IF i = Len(parts) THEN parts[i]
    ELSE parts[i] \o sep \o JoinFrom(parts, sep, i + 1)

\* sep.join(parts)
Join(parts, sep) == JoinFrom(parts, sep, 1)

NoEntries == <<>>
NoPages == <<>>

\* A file: its path (dir, base name, extension as spelled), whether it can be
\* opened and decoded by its format's library, and its content: the decoded
\* characters of a text file, the (name, data) entries of a zip archive in
\* listing order, the page texts of a PDF.
File(base, ext, ok, chars, entries, pages) ==
    [dir |-> "books", base |-> base, ext |-> ext, ok |-> ok,
     chars |-> chars, entries |-> entries, pages |-> pages]

TextJagDu == <<"j","a","g"," ","j","a","g"," ","d","u"," ","J","a","g">>
TextDuHund == <<"d","u"," ","h","u","n","d">>
TextIsTheDu == <<"i","s"," ","t","h","e"," ","D","U"," ","T","h","e","\n","h","e","j">>
MarkupHej == <<"<","p",">","H","e","j","<","/","p",">">>
MarkupHejIgen == <<"<","p",">","H","e","j"," ","i","g","e","n">>
MarkupEnd == <<"<","/","p",">">>
TextPage == <<"d","u"," ","o","c","h"," ","j","a","g">>

\* The files a run can be given, in path order (collect_files returns
\* sorted(files)); f.doc stands for a path whose extension has no handler.
\* One file of each format ends in back matter: an end marker and a word.
Catalogue ==
    << File("a.txt", ".txt", TRUE, Pad(TextJagDu, MinTextLen), NoEntries, NoPages),
       File("b.epub", ".epub", FALSE, <<>>, NoEntries, NoPages),
       File("c.txt", ".txt", TRUE, Pad(TextDuHund, MinTextLen - 1), NoEntries, NoPages),
       File("d.epub", ".epub", TRUE, <<>>,
            << [name |-> <<"m","i","m","e","t","y","p","e">>, data |-> TextDuHund],
               [name |-> <<"c","1",".","X","H","T","M","L">>, data |-> MarkupHej],
               [name |-> <<"c","2",".","h","t","m","l">>,
                data |-> Pad(MarkupHejIgen, MinTextLen) \o MarkupEnd],
               [name |-> <<"c","3",".","h","t","m">>,
                data |-> <<"<","p",">">> \o END_MARKERS[5] \o <<" ","d","u">> \o MarkupEnd] >>,
            NoPages),
       File("e.pdf", ".pdf", TRUE, <<>>, NoEntries,
            <<Pad(TextPage, MinTextLen), TextDuHund, END_MARKERS[5] \o <<" ","j","a","g">>>>),
       File("f.doc", ".doc", TRUE, Pad(TextJagDu, MinTextLen), NoEntries, NoPages),
       File("g.TXT", ".TXT", TRUE,
            Pad(TextIsTheDu, MinTextLen) \o END_MARKERS[5] \o <<" ","j","a","g">>,
            NoEntries, NoPages),
       File("h.pdf", ".pdf", FALSE, <<>>, NoEntries, NoPages) >>

FileIds == DOMAIN Catalogue

\* os.path.splitext(filepath)[1].lower()
ExtLower(ext) ==
    CASE ext = ".TXT" -> ".txt"
      [] ext = ".PDF" -> ".pdf"
      [] ext = ".EPUB" -> ".epub"
      [] OTHER -> ext

\* os.path.basename(filepath)
basename(f) == Catalogue[f].base

\* --------------------------------------------------------------------------
\* Values a call can end with: None, a string, an exception
\* --------------------------------------------------------------------------
None == [tag |-> "None"]
Raised == [tag |-> "raise"]
Str(text) == [tag |-> "str", val |-> text]

VARIABLES
    PDF_SUPPORT,    \* build.py:43-48: whether `import fitz` succeeded
    all_files,      \* the argument of build_frequency_counter: file ids in path order
    num_workers,    \* the argument num_workers
    pc,             \* where the coordinating process is
    n_total, n_done, n_failed, chunksize,
    total_counter, book_stats,
    pool,           \* "none", "running" or "terminated"
    taskq,          \* the chunks not yet taken by a worker
    busy,           \* busy[w]: the chunk worker w is processing, <<>> when idle
    outq,           \* the results that arrived and are not yet consumed, oldest first
    progress,       \* the progress lines printed: <<n_done, n_total, n_failed>>
    returned        \* <<>> until the call returns, then <<the returned triple>>

VARIABLES
    tk_words,       \* the letter runs the text is written from
    tk_sep,         \* the non-letter character between them
    tk_text,        \* the argument of tokenize_and_count
    tk_out,         \* <<>>, then <<the Counter returned>>
    mg_a, mg_b, mg_c,   \* three per-document Counters
    mg_out,         \* <<>>, then <<the merges of them>>
    st_text,        \* the argument of strip_gutenberg_boilerplate
    st_once,        \* <<>>, then <<strip(st_text)>>
    st_twice        \* <<>>, then <<strip(strip(st_text))>>

VARIABLES
    rk_corpus,      \* the argument of build_swadesh_data: a corpus Counter
    rk_data,        \* <<>>, then <<the list returned by build_swadesh_data>>
    rk_total,       \* <<>>, then <<the argument total_words of compute_tier_coverage>>
    rk_tiers        \* <<>>, then <<what compute_tier_coverage returned>>

VARIABLES
    main_pc,        \* where main is: "off" when build_frequency_counter is called alone
    main_out,       \* the lines main printed that tell how the run went
    main_total_words,   \* the local total_words
    main_swadesh,   \* <<>>, then <<the local swadesh_data>>
    main_tiers,     \* <<>>, then <<the local tier_coverage>>
    main_written,   \* the output files written, in the order of writing: name and content
    main_exit       \* <<>>, then <<the exit status>>

VARIABLES
    ep_entries,     \* the (name, data) entries of an EPUB archive, in listing order
    ep_text,        \* <<>>, then <<the text extract_text_epub returned>>
    ep_count        \* <<>>, then <<the Counter of that text>>

\* download_books.py, main
VARIABLES
    dl_pc,          \* where main of download_books.py is
    dl_target,      \* args.limit
    dl_skip_pdf,    \* args.skip_pdf
    dl_saved,       \* the log file books/_download_log.json
    dl_log,         \* the local log: the lists "downloaded" and "failed"
    dl_already,     \* the local already
    dl_total_downloaded,    \* the local total_downloaded
    dl_src,         \* the source main is at: 1, 2, 3
    dl_batch,       \* the batch of the source being downloaded
    dl_done,        \* the local done: the downloads attempted in the batch
    dl_failed       \* the local failed

tokVars == <<tk_words, tk_sep, tk_text, tk_out>>
mergeVars == <<mg_a, mg_b, mg_c, mg_out>>
stripVars == <<st_text, st_once, st_twice>>
rankVars == <<rk_corpus, rk_data, rk_total, rk_tiers>>
mainVars == <<main_pc, main_out, main_total_words, main_swadesh, main_tiers, main_written,
              main_exit>>
epubVars == <<ep_entries, ep_text, ep_count>>
dlVars == <<dl_pc, dl_target, dl_skip_pdf, dl_saved, dl_log, dl_already, dl_total_downloaded,
            dl_src, dl_batch, dl_done, dl_failed>>
restVars == <<rankVars, mainVars, epubVars, dlVars>>
otherVars == <<tokVars, mergeVars, stripVars, restVars>>

aggVars == <<PDF_SUPPORT, all_files, num_workers, pc, n_total, n_done, n_failed, chunksize,
             total_counter, book_stats, pool, taskq, busy, outq, progress, returned>>

vars == <<aggVars, tokVars, mergeVars, stripVars, restVars>>

\* --------------------------------------------------------------------------
\* TEXT EXTRACTORS
\* --------------------------------------------------------------------------
extract_text_txt(f) ==
    IF ~Catalogue[f].ok THEN Raised
    ELSE Str(strip_gutenberg_boilerplate(Catalogue[f].chars))

extract_text_pdf(f) ==
    IF ~PDF_SUPPORT THEN None
    ELSE IF ~Catalogue[f].ok THEN Raised
    ELSE Str(Join(Catalogue[f].pages, <<"\n">>))

\* _StripTagsParser().feed(raw); parser.parts: the runs of character data
\* between the tags of well-formed markup without character references.
\* A position lies in a tag when a "<" at or before it is not yet closed by a ">".
Feed(raw) ==
    LET opens == { j \in 1..Len(raw) : raw[j] = "<" }
        closes == { k \in 1..Len(raw) : raw[k] = ">" }
        InTag(i) == \E j \in opens : j <= i /\ \A k \in closes : ~(j <= k /\ k < i)
    IN RunsOf(raw, { i \in 1..Len(raw) : ~InTag(i) })

EndsWith(s, suffix) ==
    Len(s) >= Len(suffix) /\ SubSeq(s, Len(s) - Len(suffix) + 1, Len(s)) = suffix

\* name.endswith((".html", ".xhtml", ".htm")), without lower()
IsMarkupName_CaseSensitive(name) ==
    \E suffix \in { <<".","h","t","m","l">>, <<".","x","h","t","m","l">>, <<".","h","t","m">> } :
        EndsWith(name, suffix)

\* name.lower().endswith((".html", ".xhtml", ".htm"))
IsMarkupName(name) ==
    \E suffix \in { <<".","h","t","m","l">>, <<".","x","h","t","m","l">>, <<".","h","t","m">> } :
        EndsWith(LowerText(name), suffix)

RECURSIVE EpubChunks(_, _)
\* the loop over z.namelist()
EpubChunks(entries, i) ==
    IF i > Len(entries) THEN <<>>
    ELSE IF IsMarkupName(entries[i].name)
         THEN <<Join(Feed(entries[i].data), <<" ">>)>>
              \o EpubChunks(entries, i + 1)
    ELSE EpubChunks(entries, i + 1)

\* "\n".join(chunks) of an archive that opens
EpubText(entries) == Join(EpubChunks(entries, 1), <<"\n">>)

extract_text_epub(f) ==
    IF ~Catalogue[f].ok THEN Raised
    ELSE Str(EpubText(Catalogue[f].entries))

\* HANDLERS.get(ext)(filepath); None when the extension has no handler
Handle(f) ==
    LET ext == ExtLower(Catalogue[f].ext) IN
    CASE ext = ".txt" -> extract_text_txt(f)
      [] ext = ".pdf" -> extract_text_pdf(f)
      [] ext = ".epub" -> extract_text_epub(f)
      [] OTHER -> None

\* extract_text without its try/except: the handler's exception leaves the call
extract_text_NoCatch(f) == Handle(f)

extract_text(f) ==
    LET r == Handle(f) IN IF r.tag = "raise" THEN None ELSE r

\* --------------------------------------------------------------------------
\* WORKER (runs in child process)
\* --------------------------------------------------------------------------
\* `not text`
Falsy(r) == r.tag = "None" \/ (r.tag = "str" /\ Len(r.val) = 0)

\* the length test of process_single_file with <= in place of <
process_single_file_Le(f) ==
    LET text == extract_text(f) IN
    IF text.tag = "raise" THEN Raised
    ELSE IF Falsy(text) \/ Len(text.val) <= MinTextLen THEN None
    ELSE [tag |-> "result", counter |-> tokenize_and_count(text.val), filepath |-> f]

process_single_file(f) ==
    LET text == extract_text(f) IN
    IF text.tag = "raise" THEN Raised
    ELSE IF Falsy(text) \/ Len(text.val) < MinTextLen THEN None
    ELSE [tag |-> "result", counter |-> tokenize_and_count(text.val), filepath |-> f]

\* --------------------------------------------------------------------------
\* PARALLEL AGGREGATION
\* --------------------------------------------------------------------------
\* Bounds of the model
MaxDocs == 3
MaxWorkers == 2

Max(a, b) == IF a >= b THEN a ELSE b
Min(a, b) == IF a <= b THEN a ELSE b

RECURSIVE SortedSeq(_)
\* sorted(files) of a set of file ids
SortedSeq(S) ==
    IF S = {} THEN <<>>
    ELSE LET m == CHOOSE x \in S : \A y \in S : x <= y IN <<m>> \o SortedSeq(S \ {m})

FileLists == { SortedSeq(S) : S \in { T \in SUBSET FileIds : Cardinality(T) <= MaxDocs } }

\* Pool._get_tasks: the positions 1..n of the list cut into consecutive chunks of `size`
Chunks(n, size) ==
    [j \in 1..((n + size - 1) \div size) |->
        [i \in 1..(Min(j * size, n) - (j - 1) * size) |-> (j - 1) * size + i]]

Workers == 1..num_workers

AggInit ==
    /\ PDF_SUPPORT \in BOOLEAN
    /\ all_files \in FileLists
    /\ num_workers \in 1..MaxWorkers
    /\ pc = "start"
    /\ n_total = 0 /\ n_done = 0 /\ n_failed = 0 /\ chunksize = 0
    /\ total_counter = EmptyCounter
    /\ book_stats = <<>>
    /\ pool = "none"
    /\ taskq = <<>>
    /\ busy = [w \in 1..num_workers |-> <<>>]
    /\ outq = <<>>
    /\ progress = <<>>
    /\ returned = <<>>

Triple(counter, stats, failed) == [counter |-> counter, stats |-> stats, failed |-> failed]

\* build.py:232-243 without the early return of line 238-239
Enter_NoEarlyReturn ==
    /\ pc = "start"
    /\ total_counter' = EmptyCounter
    /\ n_done' = 0 /\ n_failed' = 0 /\ book_stats' = <<>>
    /\ n_total' = Len(all_files)
    /\ chunksize' = Max(1, Len(all_files) \div (num_workers * ChunkFactor))
    /\ pool' = "running"
    /\ taskq' = Chunks(Len(all_files), chunksize')
    /\ pc' = "collect"
    /\ UNCHANGED <<PDF_SUPPORT, all_files, num_workers, busy, outq, progress, returned>>
    /\ UNCHANGED otherVars

\* build.py:232-243: the locals, the early return on an empty list, else the
\* chunk size and the pool with its task queue
Enter ==
    /\ pc = "start"
    /\ total_counter' = EmptyCounter
    /\ n_done' = 0 /\ n_failed' = 0 /\ book_stats' = <<>>
    /\ n_total' = Len(all_files)
    /\ IF Len(all_files) = 0
       THEN /\ returned' = <<Triple(EmptyCounter, <<>>, 0)>>
            /\ pc' = "done"
            /\ UNCHANGED <<chunksize, pool, taskq>>
       ELSE /\ chunksize' = Max(1, Len(all_files) \div (num_workers * ChunkFactor))
            /\ pool' = "running"
            /\ taskq' = Chunks(Len(all_files), chunksize')
            /\ pc' = "collect"
            /\ UNCHANGED returned
    /\ UNCHANGED <<PDF_SUPPORT, all_files, num_workers, busy, outq, progress>>
    /\ UNCHANGED otherVars

\* a pool worker takes the next chunk from the task queue
WorkerTake(w) ==
    /\ pool = "running"
    /\ busy[w] = <<>>
    /\ taskq # <<>>
    /\ busy' = [busy EXCEPT ![w] = Head(taskq)]
    /\ taskq' = Tail(taskq)
    /\ UNCHANGED <<PDF_SUPPORT, all_files, num_workers, pc, n_total, n_done, n_failed,
                   chunksize, total_counter, book_stats, pool, outq, progress, returned>>
    /\ UNCHANGED otherVars

\* the results of one chunk as they reach the iterator: one per file, in the
\* chunk's order, or the exception that ended the chunk; `doc` is the position
\* in all_files the result belongs to
ChunkResults(chunk) ==
    LET rs == [i \in DOMAIN chunk |->
                 [doc |-> chunk[i], res |-> process_single_file(all_files[chunk[i]])]] IN
    IF \E i \in DOMAIN rs : rs[i].res.tag = "raise"
    THEN <<[doc |-> chunk[1], res |-> Raised]>>
    ELSE rs

\* a pool worker finishes its chunk (mapstar over process_single_file) and hands
\* the results back
WorkerDone(w) ==
    /\ pool = "running"
    /\ busy[w] # <<>>
    /\ outq' = outq \o ChunkResults(busy[w])
    /\ busy' = [busy EXCEPT ![w] = <<>>]
    /\ UNCHANGED <<PDF_SUPPORT, all_files, num_workers, pc, n_total, n_done, n_failed,
                   chunksize, total_counter, book_stats, pool, taskq, progress, returned>>
    /\ UNCHANGED otherVars

\* the loop with the print at the top of its body, before n_done += 1
Collect_ReportFirst ==
    /\ pc = "collect"
    /\ outq # <<>>
    /\ LET result == Head(outq).res IN
       IF result.tag = "raise"
       THEN /\ pc' = "aborted"
            /\ pool' = "terminated"
            /\ UNCHANGED <<n_done, n_failed, total_counter, book_stats, progress>>
       ELSE /\ n_done' = n_done + 1
            /\ IF result.tag = "None"
               THEN /\ n_failed' = n_failed + 1
                    /\ UNCHANGED <<total_counter, book_stats>>
               ELSE /\ total_counter' = CounterUpdate(total_counter, result.counter)
                    /\ book_stats' = Append(book_stats,
                           <<basename(result.filepath), CounterTotal(result.counter)>>)
                    /\ UNCHANGED n_failed
            /\ progress' = Append(progress, <<n_done, n_total, n_failed>>)
            /\ UNCHANGED <<pc, pool>>
    /\ outq' = Tail(outq)
    /\ UNCHANGED <<PDF_SUPPORT, all_files, num_workers, n_total, chunksize, taskq, busy, returned>>
    /\ UNCHANGED otherVars

\* the loop with `if result is None: continue` in place of the failure count
Collect_NullSkipped ==
    /\ pc = "collect"
    /\ outq # <<>>
    /\ LET result == Head(outq).res IN
       IF result.tag = "raise"
       THEN /\ pc' = "aborted"
            /\ pool' = "terminated"
            /\ UNCHANGED <<n_done, n_failed, total_counter, book_stats, progress>>
       ELSE /\ n_done' = n_done + 1
            /\ IF result.tag = "None"
               THEN UNCHANGED <<n_failed, total_counter, book_stats, progress>>
               ELSE /\ total_counter' = CounterUpdate(total_counter, result.counter)
                    /\ book_stats' = Append(book_stats,
                           <<basename(result.filepath), CounterTotal(result.counter)>>)
                    /\ progress' = Append(progress, <<n_done', n_total, n_failed>>)
                    /\ UNCHANGED n_failed
            /\ UNCHANGED <<pc, pool>>
    /\ outq' = Tail(outq)
    /\ UNCHANGED <<PDF_SUPPORT, all_files, num_workers, n_total, chunksize, taskq, busy, returned>>
    /\ UNCHANGED otherVars

\* the loop with word_count = sum(total_counter.values()) taken after the
\* update: the statistic records the running total of the corpus
Collect_RunningTotal ==
    /\ pc = "collect"
    /\ outq # <<>>
    /\ LET result == Head(outq).res IN
       IF result.tag = "raise"
       THEN /\ pc' = "aborted"
            /\ pool' = "terminated"
            /\ UNCHANGED <<n_done, n_failed, total_counter, book_stats, progress>>
       ELSE /\ n_done' = n_done + 1
            /\ IF result.tag = "None"
               THEN /\ n_failed' = n_failed + 1
                    /\ UNCHANGED <<total_counter, book_stats>>
               ELSE /\ total_counter' = CounterUpdate(total_counter, result.counter)
                    /\ book_stats' = Append(book_stats,
                           <<basename(result.filepath), CounterTotal(total_counter')>>)
                    /\ UNCHANGED n_failed
            /\ progress' = Append(progress, <<n_done', n_total, n_failed'>>)
            /\ UNCHANGED <<pc, pool>>
    /\ outq' = Tail(outq)
    /\ UNCHANGED <<PDF_SUPPORT, all_files, num_workers, n_total, chunksize, taskq, busy, returned>>
    /\ UNCHANGED otherVars

\* build.py:247-264: one iteration of the loop over imap_unordered
Collect ==
    /\ pc = "collect"
    /\ outq # <<>>
    /\ LET result == Head(outq).res IN
       IF result.tag = "raise"
       THEN /\ pc' = "aborted"
            /\ pool' = "terminated"
            /\ UNCHANGED <<n_done, n_failed, total_counter, book_stats, progress>>
       ELSE /\ n_done' = n_done + 1
            /\ IF result.tag = "None"
               THEN /\ n_failed' = n_failed + 1
                    /\ UNCHANGED <<total_counter, book_stats>>
               ELSE /\ total_counter' = CounterUpdate(total_counter, result.counter)
                    /\ book_stats' = Append(book_stats,
                           <<basename(result.filepath), CounterTotal(result.counter)>>)
                    /\ UNCHANGED n_failed
            /\ progress' = Append(progress, <<n_done', n_total, n_failed'>>)
            /\ UNCHANGED <<pc, pool>>
    /\ outq' = Tail(outq)
    /\ UNCHANGED <<PDF_SUPPORT, all_files, num_workers, n_total, chunksize, taskq, busy, returned>>
    /\ UNCHANGED otherVars

\* the return of a pool made without the with-block: nothing ends the workers
Return_PoolLeft ==
    /\ pc = "collect"
    /\ n_done = n_total
    /\ returned' = <<Triple(total_counter, book_stats, n_failed)>>
    /\ pc' = "done"
    /\ UNCHANGED <<PDF_SUPPORT, all_files, num_workers, n_total, n_done, n_failed, chunksize,
                   total_counter, book_stats, pool, taskq, busy, outq, progress>>
    /\ UNCHANGED otherVars

\* build.py:243,266-267: the iterator is exhausted, the with-block ends the
\* pool, the triple is returned
Return ==
    /\ pc = "collect"
    /\ n_done = n_total
    /\ pool' = "terminated"
    /\ returned' = <<Triple(total_counter, book_stats, n_failed)>>
    /\ pc' = "done"
    /\ UNCHANGED <<PDF_SUPPORT, all_files, num_workers, n_total, n_done, n_failed, chunksize,
                   total_counter, book_stats, taskq, busy, outq, progress>>
    /\ UNCHANGED otherVars

\* --------------------------------------------------------------------------
\* SWADESH LIST (257 entries)
\* --------------------------------------------------------------------------
\* build.py:37-38
TIER1_SIZE == 50
TIER2_SIZE == 100

\* build.py:273-355: the dict in its insertion order
SWADESH_SWEDISH ==
    << [sv |-> <<"j","a","g">>, en |-> "I"], [sv |-> <<"d","u">>, en |-> "you (singular)"],
       [sv |-> <<"h","a","n">>, en |-> "he"], [sv |-> <<"h","o","n">>, en |-> "she"],
       [sv |-> <<"v","i">>, en |-> "we"], [sv |-> <<"n","i">>, en |-> "you (plural)"],
       [sv |-> <<"d","e">>, en |-> "they"], [sv |-> <<"d","e","m">>, en |-> "them"],
       [sv |-> <<"d","e","n">>, en |-> "it / that"], [sv |-> <<"d","e","t">>, en |-> "it (neuter)"],
       [sv |-> <<"d","e","n","n","a">>, en |-> "this"],
       [sv |-> <<"d","e","t","t","a">>, en |-> "this (neuter)"],
       [sv |-> <<"h","a_uml","r">>, en |-> "here"], [sv |-> <<"d","a_uml","r">>, en |-> "there"],
       [sv |-> <<"v","e","m">>, en |-> "who"], [sv |-> <<"v","a","d">>, en |-> "what"],
       [sv |-> <<"v","a","r">>, en |-> "was / where"], [sv |-> <<"n","a_uml","r">>, en |-> "when"],
       [sv |-> <<"h","u","r">>, en |-> "how"], [sv |-> <<"i","n","t","e">>, en |-> "not"],
       [sv |-> <<"a","l","l","a">>, en |-> "all"],
       [sv |-> <<"m","a_ring","n","g","a">>, en |-> "many"],
       [sv |-> <<"n","a_ring","g","r","a">>, en |-> "some"],
       [sv |-> <<"f","a_ring">>, en |-> "few / to get"],
       [sv |-> <<"a","n","d","r","a">>, en |-> "other"], [sv |-> <<"e","n">>, en |-> "a / one"],
       [sv |-> <<"e","t","t">>, en |-> "a / one (neuter)"],
       [sv |-> <<"t","v","a_ring">>, en |-> "two"], [sv |-> <<"t","r","e">>, en |-> "three"],
       [sv |-> <<"f","y","r","a">>, en |-> "four"], [sv |-> <<"f","e","m">>, en |-> "five"],
       [sv |-> <<"s","t","o","r">>, en |-> "big"], [sv |-> <<"l","a_ring","n","g">>, en |-> "long"],
       [sv |-> <<"b","r","e","d">>, en |-> "wide"], [sv |-> <<"t","j","o","c","k">>, en |-> "thick"],
       [sv |-> <<"t","u","n","g">>, en |-> "heavy"], [sv |-> <<"l","i","t","e","n">>, en |-> "small"],
       [sv |-> <<"k","o","r","t">>, en |-> "short"], [sv |-> <<"s","m","a","l">>, en |-> "narrow"],
       [sv |-> <<"t","u","n","n">>, en |-> "thin"],
       [sv |-> <<"k","v","i","n","n","a">>, en |-> "woman"], [sv |-> <<"m","a","n">>, en |-> "man"],
       [sv |-> <<"m","a_uml","n","n","i","s","k","a">>, en |-> "person"],
       [sv |-> <<"b","a","r","n">>, en |-> "child"],
       [sv |-> <<"h","u","s","t","r","u">>, en |-> "wife"],
       [sv |-> <<"m","a","k","e">>, en |-> "husband"], [sv |-> <<"m","o","r">>, en |-> "mother"],
       [sv |-> <<"f","a","r">>, en |-> "father"], [sv |-> <<"d","j","u","r">>, en |-> "animal"],
       [sv |-> <<"f","i","s","k">>, en |-> "fish"],
       [sv |-> <<"f","a_ring","g","e","l">>, en |-> "bird"],
       [sv |-> <<"h","u","n","d">>, en |-> "dog"], [sv |-> <<"l","u","s">>, en |-> "louse"],
       [sv |-> <<"o","r","m">>, en |-> "snake"], [sv |-> <<"m","a","s","k">>, en |-> "worm"],
       [sv |-> <<"t","r","a_uml","d">>, en |-> "tree"], [sv |-> <<"s","k","o","g">>, en |-> "forest"],
       [sv |-> <<"k","a_uml","p","p">>, en |-> "stick"],
       [sv |-> <<"f","r","u","k","t">>, en |-> "fruit"], [sv |-> <<"f","r","o_uml">>, en |-> "seed"],
       [sv |-> <<"b","l","a","d">>, en |-> "leaf"], [sv |-> <<"r","o","t">>, en |-> "root"],
       [sv |-> <<"b","a","r","k">>, en |-> "bark (tree)"],
       [sv |-> <<"b","l","o","m","m","a">>, en |-> "flower"],
       [sv |-> <<"g","r","a_uml","s">>, en |-> "grass"], [sv |-> <<"r","e","p">>, en |-> "rope"],
       [sv |-> <<"h","u","d">>, en |-> "skin"],
       [sv |-> <<"k","o_uml","t","t">>, en |-> "meat / flesh"],
       [sv |-> <<"b","l","o","d">>, en |-> "blood"], [sv |-> <<"b","e","n">>, en |-> "bone / leg"],
       [sv |-> <<"f","e","t","t">>, en |-> "fat"], [sv |-> <<"a_uml","g","g">>, en |-> "egg"],
       [sv |-> <<"h","o","r","n">>, en |-> "horn"], [sv |-> <<"s","v","a","n","s">>, en |-> "tail"],
       [sv |-> <<"f","j","a_uml","d","e","r">>, en |-> "feather"],
       [sv |-> <<"h","a_ring","r">>, en |-> "hair"], [sv |-> <<"h","u","v","u","d">>, en |-> "head"],
       [sv |-> <<"o_uml","r","a">>, en |-> "ear"], [sv |-> <<"o_uml","g","a">>, en |-> "eye"],
       [sv |-> <<"n","a_uml","s","a">>, en |-> "nose"], [sv |-> <<"m","u","n">>, en |-> "mouth"],
       [sv |-> <<"t","a","n","d">>, en |-> "tooth"],
       [sv |-> <<"t","u","n","g","a">>, en |-> "tongue"],
       [sv |-> <<"n","a","g","e","l">>, en |-> "fingernail"], [sv |-> <<"f","o","t">>, en |-> "foot"],
       [sv |-> <<"k","n","a_uml">>, en |-> "knee"], [sv |-> <<"h","a","n","d">>, en |-> "hand"],
       [sv |-> <<"v","i","n","g","e">>, en |-> "wing"], [sv |-> <<"m","a","g","e">>, en |-> "belly"],
       [sv |-> <<"i","n","a_uml","l","v","o","r">>, en |-> "guts"],
       [sv |-> <<"h","a","l","s">>, en |-> "neck"],
       [sv |-> <<"r","y","g","g">>, en |-> "back (body)"],
       [sv |-> <<"b","r","o_uml","s","t">>, en |-> "breast"],
       [sv |-> <<"h","j","a_uml","r","t","a">>, en |-> "heart"],
       [sv |-> <<"l","e","v","e","r">>, en |-> "liver"],
       [sv |-> <<"d","r","i","c","k","a">>, en |-> "to drink"],
       [sv |-> <<"a_uml","t","a">>, en |-> "to eat"], [sv |-> <<"b","i","t","a">>, en |-> "to bite"],
       [sv |-> <<"s","e">>, en |-> "to see"], [sv |-> <<"h","o_uml","r","a">>, en |-> "to hear"],
       [sv |-> <<"v","e","t","a">>, en |-> "to know"],
       [sv |-> <<"t","a_uml","n","k","a">>, en |-> "to think"],
       [sv |-> <<"l","u","k","t","a">>, en |-> "to smell"],
       [sv |-> <<"f","r","u","k","t","a">>, en |-> "to fear"],
       [sv |-> <<"s","o","v","a">>, en |-> "to sleep"],
       [sv |-> <<"l","e","v","a">>, en |-> "to live"], [sv |-> <<"d","o_uml">>, en |-> "to die"],
       [sv |-> <<"d","o_uml","d","a">>, en |-> "to kill"],
       [sv |-> <<"k","a_uml","m","p","a">>, en |-> "to fight"],
       [sv |-> <<"j","a","g","a">>, en |-> "to hunt"], [sv |-> <<"s","l","a_ring">>, en |-> "to hit"],
       [sv |-> <<"s","k","a_uml","r","a">>, en |-> "to cut"],
       [sv |-> <<"d","e","l","a">>, en |-> "to split"],
       [sv |-> <<"s","t","i","c","k","a">>, en |-> "to stab"],
       [sv |-> <<"k","l","i","a">>, en |-> "to scratch"],
       [sv |-> <<"g","r","a_uml","v","a">>, en |-> "to dig"],
       [sv |-> <<"s","i","m","m","a">>, en |-> "to swim"],
       [sv |-> <<"f","l","y","g","a">>, en |-> "to fly"],
       [sv |-> <<"g","a_ring">>, en |-> "to walk / go"],
       [sv |-> <<"k","o","m","m","a">>, en |-> "to come"],
       [sv |-> <<"l","i","g","g","a">>, en |-> "to lie down"],
       [sv |-> <<"s","i","t","t","a">>, en |-> "to sit"],
       [sv |-> <<"s","t","a_ring">>, en |-> "to stand"],
       [sv |-> <<"v","a_uml","n","d","a">>, en |-> "to turn"],
       [sv |-> <<"f","a","l","l","a">>, en |-> "to fall"], [sv |-> <<"g","e">>, en |-> "to give"],
       [sv |-> <<"h","a_ring","l","l","a">>, en |-> "to hold"],
       [sv |-> <<"k","l","a_uml","m","m","a">>, en |-> "to squeeze"],
       [sv |-> <<"g","n","i","d","a">>, en |-> "to rub"],
       [sv |-> <<"t","v","a_uml","t","t","a">>, en |-> "to wash"],
       [sv |-> <<"t","o","r","k","a">>, en |-> "to wipe / dry"],
       [sv |-> <<"d","r","a">>, en |-> "to pull"],
       [sv |-> <<"t","r","y","c","k","a">>, en |-> "to push"],
       [sv |-> <<"k","a","s","t","a">>, en |-> "to throw"],
       [sv |-> <<"b","i","n","d","a">>, en |-> "to tie"], [sv |-> <<"s","y">>, en |-> "to sew"],
       [sv |-> <<"r","a_uml","k","n","a">>, en |-> "to count"],
       [sv |-> <<"s","a_uml","g","a">>, en |-> "to say"],
       [sv |-> <<"s","j","u","n","g","a">>, en |-> "to sing"],
       [sv |-> <<"l","e","k","a">>, en |-> "to play"],
       [sv |-> <<"f","l","y","t","a">>, en |-> "to float"],
       [sv |-> <<"f","l","o_uml","d","a">>, en |-> "to flow"],
       [sv |-> <<"f","r","y","s","a">>, en |-> "to freeze"],
       [sv |-> <<"s","v","a_uml","l","l","a">>, en |-> "to swell"],
       [sv |-> <<"s","o","l">>, en |-> "sun"], [sv |-> <<"m","a_ring","n","e">>, en |-> "moon"],
       [sv |-> <<"s","t","j","a_uml","r","n","a">>, en |-> "star"],
       [sv |-> <<"v","a","t","t","e","n">>, en |-> "water"],
       [sv |-> <<"r","e","g","n">>, en |-> "rain"], [sv |-> <<"f","l","o","d">>, en |-> "river"],
       [sv |-> <<"s","j","o_uml">>, en |-> "lake"], [sv |-> <<"h","a","v">>, en |-> "sea"],
       [sv |-> <<"s","a","l","t">>, en |-> "salt"], [sv |-> <<"s","t","e","n">>, en |-> "stone"],
       [sv |-> <<"s","a","n","d">>, en |-> "sand"], [sv |-> <<"s","t","o","f","t">>, en |-> "dust"],
       [sv |-> <<"j","o","r","d">>, en |-> "earth"], [sv |-> <<"m","o","l","n">>, en |-> "cloud"],
       [sv |-> <<"d","i","m","m","a">>, en |-> "fog"],
       [sv |-> <<"h","i","m","m","e","l">>, en |-> "sky"],
       [sv |-> <<"v","i","n","d">>, en |-> "wind"], [sv |-> <<"s","n","o_uml">>, en |-> "snow"],
       [sv |-> <<"i","s">>, en |-> "ice"], [sv |-> <<"r","o_uml","k">>, en |-> "smoke"],
       [sv |-> <<"e","l","d">>, en |-> "fire"], [sv |-> <<"a","s","k","a">>, en |-> "ash"],
       [sv |-> <<"b","r","a_uml","n","n","a">>, en |-> "to burn"],
       [sv |-> <<"v","a_uml","g">>, en |-> "road / path"],
       [sv |-> <<"b","e","r","g">>, en |-> "mountain"], [sv |-> <<"r","o_uml","d">>, en |-> "red"],
       [sv |-> <<"g","r","o_uml","n">>, en |-> "green"], [sv |-> <<"g","u","l">>, en |-> "yellow"],
       [sv |-> <<"v","i","t">>, en |-> "white"], [sv |-> <<"s","v","a","r","t">>, en |-> "black"],
       [sv |-> <<"n","a","t","t">>, en |-> "night"], [sv |-> <<"d","a","g">>, en |-> "day"],
       [sv |-> <<"a_ring","r">>, en |-> "year"], [sv |-> <<"v","a","r","m">>, en |-> "warm"],
       [sv |-> <<"k","a","l","l">>, en |-> "cold"], [sv |-> <<"f","u","l","l">>, en |-> "full"],
       [sv |-> <<"n","y">>, en |-> "new"], [sv |-> <<"g","a","m","m","a","l">>, en |-> "old"],
       [sv |-> <<"g","o","d">>, en |-> "good"], [sv |-> <<"d","a_ring","l","i","g">>, en |-> "bad"],
       [sv |-> <<"r","u","t","t","e","n">>, en |-> "rotten"],
       [sv |-> <<"s","m","u","t","s","i","g">>, en |-> "dirty"],
       [sv |-> <<"r","a","k">>, en |-> "straight"], [sv |-> <<"r","u","n","d">>, en |-> "round"],
       [sv |-> <<"v","a","s","s">>, en |-> "sharp"],
       [sv |-> <<"s","l","o_uml">>, en |-> "dull / lazy"],
       [sv |-> <<"s","l","a_uml","t">>, en |-> "smooth"], [sv |-> <<"v","a_ring","t">>, en |-> "wet"],
       [sv |-> <<"t","o","r","r">>, en |-> "dry"],
       [sv |-> <<"r","a_uml","t","t">>, en |-> "right / correct"],
       [sv |-> <<"n","a_uml","r","a">>, en |-> "near"],
       [sv |-> <<"l","a_ring","n","g","t">>, en |-> "far (distance)"],
       [sv |-> <<"h","o_uml","g","e","r">>, en |-> "right (dir.)"],
       [sv |-> <<"v","a_uml","n","s","t","e","r">>, en |-> "left"],
       [sv |-> <<"v","i","d">>, en |-> "at / by"], [sv |-> <<"i">>, en |-> "in"],
       [sv |-> <<"m","e","d">>, en |-> "with"], [sv |-> <<"o","c","h">>, en |-> "and"],
       [sv |-> <<"o","m">>, en |-> "if / about"],
       [sv |-> <<"f","o_uml","r">>, en |-> "for / because"],
       [sv |-> <<"n","a","m","n">>, en |-> "name"], [sv |-> <<"v","a","r","a">>, en |-> "to be"],
       [sv |-> <<"h","a">>, en |-> "to have"], [sv |-> <<"b","l","i">>, en |-> "to become"],
       [sv |-> <<"s","k","a">>, en |-> "shall / will"], [sv |-> <<"k","a","n">>, en |-> "can"],
       [sv |-> <<"m","a_ring","s","t","e">>, en |-> "must"],
       [sv |-> <<"v","i","l","l","e">>, en |-> "wanted"],
       [sv |-> <<"s","k","u","l","l","e">>, en |-> "would"],
       [sv |-> <<"h","a","d","e">>, en |-> "had"], [sv |-> <<"a_uml","r">>, en |-> "is / am / are"],
       [sv |-> <<"b","l","e","v">>, en |-> "became"],
       [sv |-> <<"f","i","n","n","s">>, en |-> "exists / there is"],
       [sv |-> <<"s","i","g">>, en |-> "oneself"], [sv |-> <<"s","i","n">>, en |-> "his/her (own)"],
       [sv |-> <<"s","i","t","t">>, en |-> "his/her (own, n.)"],
       [sv |-> <<"s","i","n","a">>, en |-> "his/her (own, pl.)"],
       [sv |-> <<"m","i","n">>, en |-> "my"], [sv |-> <<"m","i","t","t">>, en |-> "my (neuter)"],
       [sv |-> <<"d","i","n">>, en |-> "your"], [sv |-> <<"h","a","n","s">>, en |-> "his"],
       [sv |-> <<"h","e","n","n","e","s">>, en |-> "her"],
       [sv |-> <<"s","o","m">>, en |-> "who / which / that"],
       [sv |-> <<"a","t","t">>, en |-> "to / that"], [sv |-> <<"a","v">>, en |-> "of / from"],
       [sv |-> <<"p","a_ring">>, en |-> "on / at"], [sv |-> <<"t","i","l","l">>, en |-> "to"],
       [sv |-> <<"f","r","a_ring","n">>, en |-> "from"], [sv |-> <<"u","t">>, en |-> "out"],
       [sv |-> <<"u","p","p">>, en |-> "up"], [sv |-> <<"n","e","r">>, en |-> "down"],
       [sv |-> <<"o_uml","v","e","r">>, en |-> "over"],
       [sv |-> <<"u","n","d","e","r">>, en |-> "under"],
       [sv |-> <<"m","e","l","l","a","n">>, en |-> "between"],
       [sv |-> <<"e","f","t","e","r">>, en |-> "after"],
       [sv |-> <<"f","o_uml","r","e">>, en |-> "before"],
       [sv |-> <<"g","e","n","o","m">>, en |-> "through"],
       [sv |-> <<"h","o","s">>, en |-> "at (someone's)"],
       [sv |-> <<"m","o","t">>, en |-> "towards / against"],
       [sv |-> <<"u","t","a","n">>, en |-> "without"],
       [sv |-> <<"o","c","k","s","a_ring">>, en |-> "also"],
       [sv |-> <<"r","e","d","a","n">>, en |-> "already"],
       [sv |-> <<"b","a","r","a">>, en |-> "only / just"],
       [sv |-> <<"n","o","g">>, en |-> "enough / probably"],
       [sv |-> <<"m","y","c","k","e","t">>, en |-> "much / very"],
       [sv |-> <<"m","e","r">>, en |-> "more"], [sv |-> <<"m","e","s","t">>, en |-> "most"],
       [sv |-> <<"s","e","d","a","n">>, en |-> "since / then"], [sv |-> <<"n","u">>, en |-> "now"],
       [sv |-> <<"a","l","d","r","i","g">>, en |-> "never"],
       [sv |-> <<"a","l","l","t","i","d">>, en |-> "always"], [sv |-> <<"j","a">>, en |-> "yes"],
       [sv |-> <<"n","e","j">>, en |-> "no"] >>

SetMax(S) == CHOOSE x \in S : \A y \in S : y <= x

RECURSIVE SortLoop(_, _)
\* an ascending stable sort that is then reversed: sorted(results, key=freq)[::-1]
SortLoop_AscReversed(results, keys) ==
    IF keys = {} THEN <<>>
    ELSE LET top == SetMax(keys)
             IsTop(r) == r.freq = top
             run == SelectSeq(results, IsTop)
         IN [i \in 1..Len(run) |-> run[Len(run) + 1 - i]] \o SortLoop(results, keys \ {top})

\* results.sort(key=lambda x: x["freq"], reverse=True): list.sort is stable and
\* reverse=True keeps the original order of the elements with equal keys, so
\* the list is the runs of equal key, greatest key first, each run in list order
SortLoop(results, keys) ==
    IF keys = {} THEN <<>>
    ELSE LET top == SetMax(keys)
             IsTop(r) == r.freq = top
         IN SelectSeq(results, IsTop) \o SortLoop(results, keys \ {top})

SortByFreqDesc(results) == SortLoop(results, { results[i].freq : i \in DOMAIN results })

\* the loop of build.py:360-362
Joined(counter) ==
    [i \in DOMAIN SWADESH_SWEDISH |->
        [sv |-> SWADESH_SWEDISH[i].sv, en |-> SWADESH_SWEDISH[i].en,
         freq |-> CounterGet(counter, SWADESH_SWEDISH[i].sv)]]

\* the loop appending only the words the corpus holds: if sv in total_counter
build_swadesh_data_FoundOnly(counter) ==
    LET Found(r) == r.freq > 0 IN SortByFreqDesc(SelectSeq(Joined(counter), Found))

build_swadesh_data(counter) == SortByFreqDesc(Joined(counter))

\* --------------------------------------------------------------------------
\* TIER COVERAGE
\* --------------------------------------------------------------------------
RECURSIVE SumFreq(_, _, _)
\* sum(w["freq"] for w in swadesh_data[lo-1:hi]), halving the slice
SumFreq(data, lo, hi) ==
    IF lo > hi THEN 0
    ELSE IF lo = hi THEN data[lo].freq
    ELSE LET mid == (lo + hi) \div 2 IN SumFreq(data, lo, mid) + SumFreq(data, mid + 1, hi)

\* round(s / total_words * 100, 1), in tenths of a percent.  The quotient is a
\* binary double within 1e-13 of the exact value, so it rounds as the exact
\* value does, except when the exact value lies halfway between two tenths:
\* there the double's last bit decides, and `tie` (0 or 1) stands for it.
Pct(s, total_words, tie) ==
    LET n == 1000 * s IN
    IF 2 * (n % total_words) = total_words
    THEN (n \div total_words) + tie
    ELSE (2 * n + total_words) \div (2 * total_words)

Tiers(t1, t2, t3) == [tier1 |-> t1, tier2 |-> t2, tier3 |-> t3]

\* the second slice begun one entry early: swadesh_data[TIER1_SIZE - 1:TIER2_SIZE]
TierSums_Overlap(swadesh_data) ==
    << SumFreq(swadesh_data, 1, Min(TIER1_SIZE, Len(swadesh_data))),
       SumFreq(swadesh_data, TIER1_SIZE, Min(TIER2_SIZE, Len(swadesh_data))),
       SumFreq(swadesh_data, TIER2_SIZE + 1, Len(swadesh_data)) >>

\* the sums of the three slices of build.py:373-375
TierSums(swadesh_data) ==
    << SumFreq(swadesh_data, 1, Min(TIER1_SIZE, Len(swadesh_data))),
       SumFreq(swadesh_data, TIER1_SIZE + 1, Min(TIER2_SIZE, Len(swadesh_data))),
       SumFreq(swadesh_data, TIER2_SIZE + 1, Len(swadesh_data)) >>

\* build.py:373-376; a division by zero raises ZeroDivisionError.  Two tiers
\* with the same sum give the same double and so round the same way: a tier
\* takes the tie of the first tier that has its sum.
TierDivide(swadesh_data, total_words, ties) ==
    IF total_words = 0 THEN Raised
    ELSE LET s == TierSums(swadesh_data)
             TieOf(k) == ties[SetMin({ j \in 1..3 : s[j] = s[k] })]
         IN Tiers(Pct(s[1], total_words, TieOf(1)),
                  Pct(s[2], total_words, TieOf(2)),
                  Pct(s[3], total_words, TieOf(3)))

\* compute_tier_coverage without the test of line 371
compute_tier_coverage_NoGuard(swadesh_data, total_words, ties) ==
    TierDivide(swadesh_data, total_words, ties)

compute_tier_coverage(swadesh_data, total_words, ties) ==
    IF total_words = 0 THEN Tiers(0, 0, 0)
    ELSE TierDivide(swadesh_data, total_words, ties)

\* --------------------------------------------------------------------------
\* HTML RENDERER
\* --------------------------------------------------------------------------
\* build.py:406-437: the values put in place of the placeholders of the
\* template: the ranked list (WORDS_DATA), the totals, the tier data and the
\* two displayed percentages, tier1 and tier1 + tier2
render_html(swadesh_data, total_words, book_count, tier_coverage) ==
    [words |-> swadesh_data, total_words |-> total_words, book_count |-> book_count,
     swadesh_count |-> Len(swadesh_data), tiers |-> tier_coverage,
     tier1_pct |-> tier_coverage.tier1,
     tier12_pct |-> tier_coverage.tier1 + tier_coverage.tier2]

\* --------------------------------------------------------------------------
\* FREQUENCY TXT OUTPUT
\* --------------------------------------------------------------------------
RECURSIVE MostCommonLoop(_, _)
\* sorted(items, key=count, reverse=True): the runs of equal count, greatest
\* count first, each run in the insertion order of the Counter
MostCommonLoop(c, counts) ==
    IF counts = {} THEN <<>>
    ELSE LET top == SetMax(counts)
             IsTop(item) == item.n = top
         IN SelectSeq(c, IsTop) \o MostCommonLoop(c, counts \ {top})

\* Counter.most_common()
most_common(c) == MostCommonLoop(c, { c[i].n : i \in DOMAIN c })

\* the place of a base name in the order of strings: the Catalogue lists the
\* files in path order and all of them lie in one directory
NameRank(name) == CHOOSE f \in FileIds : Catalogue[f].base = name

\* sorted(book_stats): the (name, count) pairs by name; a name stands for one
\* file of the list, so no two pairs share it
SortedStats(stats) ==
    LET order == SortedSeq({ NameRank(stats[i][1]) : i \in DOMAIN stats })
    IN [i \in DOMAIN stats |-> stats[CHOOSE j \in DOMAIN stats : NameRank(stats[j][1]) = order[i]]]

\* build.py:443-458: the file in the order of its lines: the header with the
\* number of books, the total and the number of unique words, the books by
\* name, the words by descending frequency
write_freq_txt(counter, stats, total_words) ==
    [books |-> Len(stats), total_words |-> total_words, unique |-> Len(counter),
     analyzed |-> SortedStats(stats), words |-> most_common(counter)]

WrittenFile(name, content) == [name |-> name, content |-> content]

\* --------------------------------------------------------------------------
\* MAIN
\* --------------------------------------------------------------------------
\* build.py:165-169: the extensions with a handler
HANDLERS == {".txt", ".pdf", ".epub"}

\* build.py:213-225: the files under books/ whose extension has a handler, sorted
collect_files(books) ==
    SortedSeq({ f \in books : ExtLower(Catalogue[f].ext) \in HANDLERS })

\* type_counts.get(".pdf", 0) of build.py:517-520
PdfCount(files) ==
    Cardinality({ i \in DOMAIN files : ExtLower(Catalogue[files[i]].ext) = ".pdf" })

Line(msg, n) == [msg |-> msg, n |-> n]

MainInit ==
    /\ PDF_SUPPORT \in BOOLEAN
    /\ all_files = <<>>
    /\ num_workers \in 1..MaxWorkers
    /\ pc = "off"
    /\ n_total = 0 /\ n_done = 0 /\ n_failed = 0 /\ chunksize = 0
    /\ total_counter = EmptyCounter
    /\ book_stats = <<>>
    /\ pool = "none"
    /\ taskq = <<>>
    /\ busy = [w \in 1..num_workers |-> <<>>]
    /\ outq = <<>>
    /\ progress = <<>>
    /\ returned = <<>>
    /\ main_pc = "start"
    /\ main_out = <<>>
    /\ main_total_words = 0
    /\ main_swadesh = <<>>
    /\ main_tiers = <<>>
    /\ main_written = <<>>
    /\ main_exit = <<>>

aggFrame == <<PDF_SUPPORT, num_workers, n_total, n_done, n_failed, chunksize, total_counter,
              book_stats, pool, taskq, busy, outq, progress, returned>>

\* build.py:508-537: collect the files; exit when there are none; warn once
\* about PDFs that cannot be decoded; call build_frequency_counter
CollectFiles ==
    /\ main_pc = "start"
    /\ \E books \in { S \in SUBSET FileIds : Cardinality(S) <= MaxDocs } :
          all_files' = collect_files(books)
    /\ IF all_files' = <<>>
       THEN /\ main_out' = Append(main_out, Line("No books found!", 0))
            /\ main_exit' = <<1>>
            /\ main_pc' = "exit"
            /\ pc' = pc
       ELSE /\ main_out' = IF PdfCount(all_files') > 0 /\ ~PDF_SUPPORT
                           THEN Append(main_out, Line("WARNING: .pdf files", PdfCount(all_files')))
                           ELSE main_out
            /\ main_pc' = "aggregate"
            /\ pc' = "start"
            /\ main_exit' = main_exit
    /\ UNCHANGED <<aggFrame, main_total_words, main_swadesh, main_tiers, main_written>>
    /\ UNCHANGED <<tokVars, mergeVars, stripVars, rankVars, epubVars, dlVars>>

\* build.py:539-547 with the exit of lines 545-547 left out
Summary_NoExit ==
    /\ main_pc = "aggregate" /\ pc = "done"
    /\ main_total_words' = CounterTotal(returned[1].counter)
    /\ main_out' = IF returned[1].failed # 0
                   THEN Append(main_out, Line("Failed", returned[1].failed)) ELSE main_out
    /\ main_pc' = "rank"
    /\ UNCHANGED <<aggVars, main_swadesh, main_tiers, main_written, main_exit>>
    /\ UNCHANGED <<tokVars, mergeVars, stripVars, rankVars, epubVars, dlVars>>

\* build.py:539-547: the call has returned; the totals are printed, the
\* failure count when it is not 0; a corpus without words ends the run
Summary ==
    /\ main_pc = "aggregate" /\ pc = "done"
    /\ main_total_words' = CounterTotal(returned[1].counter)
    /\ LET out == IF returned[1].failed # 0
                  THEN Append(main_out, Line("Failed", returned[1].failed)) ELSE main_out
       IN IF main_total_words' = 0
          THEN /\ main_out' = Append(out, Line("ERROR: No words extracted.", 0))
               /\ main_exit' = <<1>>
               /\ main_pc' = "exit"
          ELSE /\ main_out' = out
               /\ main_pc' = "rank"
               /\ main_exit' = main_exit
    /\ UNCHANGED <<aggVars, main_swadesh, main_tiers, main_written>>
    /\ UNCHANGED <<tokVars, mergeVars, stripVars, rankVars, epubVars, dlVars>>

\* build.py:549-551
Swadesh ==
    /\ main_pc = "rank"
    /\ main_swadesh' = <<build_swadesh_data(returned[1].counter)>>
    /\ \E ties \in [1..3 -> {0, 1}] :
          main_tiers' = <<compute_tier_coverage(main_swadesh'[1], main_total_words, ties)>>
    /\ main_pc' = "render"
    /\ UNCHANGED <<aggVars, main_out, main_total_words, main_written, main_exit>>
    /\ UNCHANGED <<tokVars, mergeVars, stripVars, rankVars, epubVars, dlVars>>

\* build.py:557-563 with render_html, build.py:395-401: without the template
\* the run ends, else index.html is written
GenerateHtml ==
    /\ main_pc = "render"
    /\ \E template_exists \in BOOLEAN :
          IF template_exists
          THEN /\ main_written' = Append(main_written, WrittenFile("index.html",
                     render_html(main_swadesh[1], main_total_words, Len(returned[1].stats),
                                 main_tiers[1])))
               /\ main_pc' = "freq_txt"
               /\ UNCHANGED <<main_out, main_exit>>
          ELSE /\ main_out' = Append(main_out, Line("ERROR: template.html not found", 0))
               /\ main_exit' = <<1>>
               /\ main_pc' = "exit"
               /\ UNCHANGED main_written
    /\ UNCHANGED <<aggVars, main_total_words, main_swadesh, main_tiers>>
    /\ UNCHANGED <<tokVars, mergeVars, stripVars, rankVars, epubVars, dlVars>>

\* build.py:565-571: the frequency file unless --no-freq-txt, then the end
GenerateFreqTxt ==
    /\ main_pc = "freq_txt"
    /\ \E no_freq_txt \in BOOLEAN :
          main_written' = IF no_freq_txt THEN main_written
                          ELSE Append(main_written, WrittenFile("swedish_word_frequencies.txt",
                                   write_freq_txt(returned[1].counter, returned[1].stats,
                                                  main_total_words)))
    /\ main_exit' = <<0>>
    /\ main_pc' = "exit"
    /\ UNCHANGED <<aggVars, main_out, main_total_words, main_swadesh, main_tiers>>
    /\ UNCHANGED <<tokVars, mergeVars, stripVars, rankVars, epubVars, dlVars>>

\* --------------------------------------------------------------------------
\* The functions applied on their own: the tokenizer, the merge, the stripper,
\* the ranker
\* --------------------------------------------------------------------------
\* Bounds of the inputs
MaxWords == 3
MaxCount == 2
MaxSegs == 4
MaxHead == 3
MaxTail == 98
MaxEntries == 3
MaxIds == 2
MaxLimit == 3

AggIdle ==
    /\ PDF_SUPPORT = FALSE /\ all_files = <<>> /\ num_workers = 1 /\ pc = "off"
    /\ n_total = 0 /\ n_done = 0 /\ n_failed = 0 /\ chunksize = 0
    /\ total_counter = EmptyCounter /\ book_stats = <<>> /\ pool = "none"
    /\ taskq = <<>> /\ busy = <<>> /\ outq = <<>> /\ progress = <<>> /\ returned = <<>>

TokIdle == tk_words = <<>> /\ tk_sep = " " /\ tk_text = <<>> /\ tk_out = <<>>
MergeIdle == mg_a = <<>> /\ mg_b = <<>> /\ mg_c = <<>> /\ mg_out = <<>>
StripIdle == st_text = <<>> /\ st_once = <<>> /\ st_twice = <<>>
RankIdle == rk_corpus = <<>> /\ rk_data = <<>> /\ rk_total = <<>> /\ rk_tiers = <<>>
MainIdle ==
    /\ main_pc = "off" /\ main_out = <<>> /\ main_total_words = 0 /\ main_swadesh = <<>>
    /\ main_tiers = <<>> /\ main_written = <<>> /\ main_exit = <<>>
EpubIdle == ep_entries = <<>> /\ ep_text = <<>> /\ ep_count = <<>>
DlIdle ==
    /\ dl_pc = "off" /\ dl_target = 0 /\ dl_skip_pdf = FALSE
    /\ dl_saved = <<>> /\ dl_log = <<>> /\ dl_already = {} /\ dl_total_downloaded = 0
    /\ dl_src = 1 /\ dl_batch = <<>> /\ dl_done = 0 /\ dl_failed = 0
RestIdle == RankIdle /\ MainIdle /\ EpubIdle /\ DlIdle

\* ---- the tokenizer on texts written from a list of letter runs
W_jag == <<"j","a","g">>
W_Jag == <<"J","a","g">>
W_du == <<"d","u">>
W_the == <<"t","h","e">>
W_The == <<"T","h","e">>
W_is == <<"i","s">>
W_IS == <<"I","S">>
W_Ar == <<"A_uml","r">>
Run40 == Rep("x", MaxTokenLen)
Run41 == Rep("x", MaxTokenLen + 1)

TokWords == {W_jag, W_Jag, W_du, W_the, W_The, W_is, W_IS, W_Ar, Run40, Run41}
Separators == {" ", "1"}

TokInit ==
    /\ tk_words \in UNION { [1..n -> TokWords] : n \in 0..MaxWords }
    /\ tk_sep \in Separators
    /\ tk_text = Join(tk_words, <<tk_sep>>)
    /\ tk_out = <<>>

Tokenize ==
    /\ tk_out = <<>>
    /\ tk_out' = <<tokenize_and_count(tk_text)>>
    /\ UNCHANGED <<tk_words, tk_sep, tk_text, aggVars, mergeVars, stripVars, restVars>>

\* ---- the merge on three Counters
MergeKeys == {W_jag, W_du}
Items == [k : MergeKeys, n : 1..MaxCount]

\* the Counters over MergeKeys with counts 1..MaxCount, in every key order
Counters ==
    UNION { { c \in [1..n -> Items] : \A i, j \in 1..n : i # j => c[i].k # c[j].k }
            : n \in 0..Cardinality(MergeKeys) }

MergeInit ==
    /\ mg_a \in Counters /\ mg_b \in Counters /\ mg_c \in Counters
    /\ mg_out = <<>>

Merge ==
    /\ mg_out = <<>>
    /\ mg_out' = << [ab |-> CounterUpdate(mg_a, mg_b),
                     ba |-> CounterUpdate(mg_b, mg_a),
                     ab_c |-> CounterUpdate(CounterUpdate(mg_a, mg_b), mg_c),
                     a_bc |-> CounterUpdate(mg_a, CounterUpdate(mg_b, mg_c))] >>
    /\ UNCHANGED <<mg_a, mg_b, mg_c, aggVars, tokVars, stripVars, restVars>>

\* ---- the stripper on texts written from markers, newlines and words
Segments ==
    { START_MARKERS[1], START_MARKERS[4], START_MARKERS[5], END_MARKERS[1], END_MARKERS[5],
      <<"\n">>, <<" ","j","a","g">> }

StripInit ==
    /\ st_text \in { Join(segs, <<>>) : segs \in UNION { [1..n -> Segments] : n \in 0..MaxSegs } }
    /\ st_once = <<>>
    /\ st_twice = <<>>

StripOnce ==
    /\ st_once = <<>>
    /\ st_once' = <<strip_gutenberg_boilerplate(st_text)>>
    /\ UNCHANGED <<st_text, st_twice, aggVars, tokVars, mergeVars, restVars>>

StripTwice ==
    /\ st_once # <<>> /\ st_twice = <<>>
    /\ st_twice' = <<strip_gutenberg_boilerplate(st_once[1])>>
    /\ UNCHANGED <<st_text, st_once, aggVars, tokVars, mergeVars, restVars>>

\* ---- the ranker and the tier coverage on corpus Counters over the vocabulary
W_hej == <<"h","e","j">>

\* the Counter in which `tail` vocabulary words, from the second on, occur once,
\* the `head` words after them twice, and with `other` a word outside the
\* vocabulary once
RankCorpus(head, tail, other) ==
    [i \in 1..(tail + head) |->
        [k |-> SWADESH_SWEDISH[i + 1].sv, n |-> IF i <= tail THEN 1 ELSE 2]]
    \o (IF other THEN <<[k |-> W_hej, n |-> 1]>> ELSE <<>>)

RankInit ==
    /\ rk_corpus \in { RankCorpus(head, tail, other) :
                         head \in 0..MaxHead, tail \in 0..MaxTail, other \in BOOLEAN }
    /\ rk_data = <<>> /\ rk_total = <<>> /\ rk_tiers = <<>>

Rank ==
    /\ rk_data = <<>>
    /\ rk_data' = <<build_swadesh_data(rk_corpus)>>
    /\ UNCHANGED <<rk_corpus, rk_total, rk_tiers, aggVars, tokVars, mergeVars, stripVars, mainVars,
                   epubVars, dlVars>>

\* compute_tier_coverage(swadesh_data, total_words) with the corpus total, as
\* main passes it, or with 0
TierCoverage ==
    /\ rk_data # <<>> /\ rk_tiers = <<>>
    /\ \E total_words \in {0, CounterTotal(rk_corpus)}, ties \in [1..3 -> {0, 1}] :
          /\ rk_total' = <<total_words>>
          /\ rk_tiers' = <<compute_tier_coverage(rk_data[1], total_words, ties)>>
    /\ UNCHANGED <<rk_corpus, rk_data, aggVars, tokVars, mergeVars, stripVars, mainVars, epubVars,
                   dlVars>>

\* ---- the tokenizer and the ranker on texts written from a vocabulary word
UpperOf == [c \in LowerSet |-> UpperLetters[CHOOSE i \in DOMAIN LowerLetters : LowerLetters[i] = c]]

\* the word in capital letters
UpperText(s) == [i \in 1..Len(s) |-> IF s[i] \in LowerSet THEN UpperOf[s[i]] ELSE s[i]]

\* the word with a capital first letter
Capitalized(s) == [i \in 1..Len(s) |-> IF i = 1 /\ s[i] \in LowerSet THEN UpperOf[s[i]] ELSE s[i]]

\* the texts of one vocabulary word: the word 1 to MaxCount times, as it is
\* spelled in SWADESH_SWEDISH, capitalized or in capitals, alone or after a
\* noise word
VocTexts ==
    UNION { UNION { { Rep(form, n), <<W_The>> \o Rep(form, n) }
                    : form \in { SWADESH_SWEDISH[i].sv, Capitalized(SWADESH_SWEDISH[i].sv),
                                 UpperText(SWADESH_SWEDISH[i].sv) } }
            : i \in DOMAIN SWADESH_SWEDISH, n \in 1..MaxCount }

VocInit ==
    /\ tk_words \in VocTexts
    /\ tk_sep \in Separators
    /\ tk_text = Join(tk_words, <<tk_sep>>)
    /\ tk_out = <<>>

\* build.py:546 on the corpus of that one document: total_counter is the
\* Counter of the document
RankTokens ==
    /\ tk_out # <<>> /\ rk_data = <<>>
    /\ rk_corpus' = tk_out[1]
    /\ rk_data' = <<build_swadesh_data(rk_corpus')>>
    /\ UNCHANGED <<rk_total, rk_tiers, aggVars, tokVars, mergeVars, stripVars, mainVars, epubVars,
                   dlVars>>

\* ---- the EPUB extractor on archives of up to MaxEntries entries
E_mimetype == [name |-> <<"m","i","m","e","t","y","p","e">>, data |-> TextDuHund]
E_c1 == [name |-> <<"c","1",".","X","H","T","M","L">>, data |-> MarkupHej]
E_c2 == [name |-> <<"c","2",".","h","t","m","l">>, data |-> MarkupHejIgen \o MarkupEnd]
E_c3 == [name |-> <<"c","3",".","h","t","m">>,
         data |-> <<"<","b",">","d","u","<","/","b",">"," ","j","a","g">>]
E_bak == [name |-> <<"c",".","h","t","m","l",".","b","a","k">>,
          data |-> <<"<","p",">","h","u","n","d","<","/","p",">">>]

Entries == {E_mimetype, E_c1, E_c2, E_c3, E_bak}

\* the archives: entries with distinct names in any listing order
EpubInit ==
    /\ ep_entries \in UNION { { a \in [1..n -> Entries] : \A i, j \in 1..n : i # j => a[i] # a[j] }
                             : n \in 0..MaxEntries }
    /\ ep_text = <<>> /\ ep_count = <<>>

EpubExtract ==
    /\ ep_text = <<>>
    /\ ep_text' = <<EpubText(ep_entries)>>
    /\ UNCHANGED <<ep_entries, ep_count, aggVars, tokVars, mergeVars, stripVars, rankVars,
                   mainVars, dlVars>>

EpubTokenize ==
    /\ ep_text # <<>> /\ ep_count = <<>>
    /\ ep_count' = <<tokenize_and_count(ep_text[1])>>
    /\ UNCHANGED <<ep_entries, ep_text, aggVars, tokVars, mergeVars, stripVars, rankVars,
                   mainVars, dlVars>>

\* --------------------------------------------------------------------------
\* download_books.py: MAIN, the three sources within --limit
\* --------------------------------------------------------------------------
\* the sources in the order main visits them, as the prefixes of the log keys
Sources == <<"gutenberg", "littbank", "ia">>

\* f"gutenberg_{book_id}", f"littbank_{ident}", f"ia_{ident}"
Key(src, id) == <<Sources[src], id>>

\* the catalogue a source answers with: the ids 1..n in the source's order
\* (ids are distinct), the empty list when the request fails
Catalogues == { [i \in 1..n |-> i] : n \in 0..MaxIds }

AllKeys == [k \in 1..(Len(Sources) * MaxIds) |->
               Key(((k - 1) \div MaxIds) + 1, ((k - 1) % MaxIds) + 1)]

Log(downloaded, failed) == [downloaded |-> downloaded, failed |-> failed]

\* ids[:n] without the cut
Prefix_All(ids, n) == ids

\* ids[:n]
Prefix(ids, n) == SubSeq(ids, 1, Min(n, Len(ids)))

\* the log files an earlier run can have left: any of the keys downloaded
DlInit ==
    /\ dl_pc = "start"
    /\ dl_target \in 0..MaxLimit
    /\ dl_skip_pdf \in BOOLEAN
    /\ dl_saved \in { LET In(key) == key \in S IN Log(SelectSeq(AllKeys, In), <<>>)
                        : S \in SUBSET { AllKeys[k] : k \in DOMAIN AllKeys } }
    /\ dl_log = Log(<<>>, <<>>) /\ dl_already = {} /\ dl_total_downloaded = 0
    /\ dl_src = 1 /\ dl_batch = <<>> /\ dl_done = 0 /\ dl_failed = 0

\* download_books.py:319-330: load the log; return when it already holds
\* `target` books
DlStart ==
    /\ dl_pc = "start"
    /\ dl_log' = dl_saved
    /\ dl_already' = { dl_saved.downloaded[i] : i \in DOMAIN dl_saved.downloaded }
    /\ dl_total_downloaded' = Cardinality(dl_already')
    /\ dl_pc' = IF dl_total_downloaded' >= dl_target THEN "returned" ELSE "source"
    /\ UNCHANGED <<dl_target, dl_skip_pdf, dl_saved, dl_src, dl_batch, dl_done, dl_failed>>
    /\ UNCHANGED <<aggVars, tokVars, mergeVars, stripVars, rankVars, mainVars, epubVars>>

\* whether main asks source src for its catalogue: download_books.py:334
\* (always), 359 and 387
Asks(src) ==
    CASE src = 1 -> TRUE
      [] src = 2 -> ~dl_skip_pdf /\ dl_total_downloaded < dl_target
      [] src = 3 -> dl_total_downloaded < dl_target

\* after source src comes the next one, after the last the summary and the end
Leave(src) ==
    /\ dl_pc' = IF src = Len(Sources) THEN "returned" ELSE "source"
    /\ dl_src' = IF src = Len(Sources) THEN src ELSE src + 1

\* download_books.py:332-342, 358-369, 386-397: the catalogue of the source
\* without the keys already in the log, and the batch cut to what is missing
\* from the target; a source that is not asked or has nothing new is left
BeginSource ==
    /\ dl_pc = "source"
    /\ IF ~Asks(dl_src)
       THEN /\ Leave(dl_src)
            /\ UNCHANGED <<dl_batch, dl_done, dl_failed>>
       ELSE \E ids \in Catalogues :
              LET IsNew(id) == Key(dl_src, id) \notin dl_already
                  new == SelectSeq(ids, IsNew)
              IN IF new # <<>> /\ dl_total_downloaded < dl_target
                 THEN /\ dl_batch' = Prefix(new, dl_target - dl_total_downloaded)
                      /\ dl_done' = 0 /\ dl_failed' = 0
                      /\ dl_pc' = "loop"
                      /\ UNCHANGED dl_src
                 ELSE /\ Leave(dl_src)
                      /\ UNCHANGED <<dl_batch, dl_done, dl_failed>>
    /\ UNCHANGED <<dl_target, dl_skip_pdf, dl_saved, dl_log, dl_already, dl_total_downloaded>>
    /\ UNCHANGED <<aggVars, tokVars, mergeVars, stripVars, rankVars, mainVars, epubVars>>

\* the break of download_books.py:399-400, in the loop of the third source only
Break == dl_src = 3 /\ dl_total_downloaded >= dl_target

\* download_books.py:344-352, 371-380, 399-409: one iteration of the loop over
\* the batch: the download of one book succeeds or fails
Download ==
    /\ dl_pc = "loop"
    /\ dl_done < Len(dl_batch) /\ ~Break
    /\ LET key == Key(dl_src, dl_batch[dl_done + 1]) IN
       \E result \in BOOLEAN :
          IF result
          THEN /\ dl_log' = Log(Append(dl_log.downloaded, key), dl_log.failed)
               /\ dl_total_downloaded' = dl_total_downloaded + 1
               /\ UNCHANGED dl_failed
          ELSE /\ dl_log' = Log(dl_log.downloaded, Append(dl_log.failed, key))
               /\ dl_failed' = dl_failed + 1
               /\ UNCHANGED dl_total_downloaded
    /\ dl_done' = dl_done + 1
    /\ UNCHANGED <<dl_pc, dl_target, dl_skip_pdf, dl_saved, dl_already, dl_src, dl_batch>>
    /\ UNCHANGED <<aggVars, tokVars, mergeVars, stripVars, rankVars, mainVars, epubVars>>

\* download_books.py:354-356, 382-384, 411-413: the loop is over, the log is saved
EndSource ==
    /\ dl_pc = "loop"
    /\ dl_done = Len(dl_batch) \/ Break
    /\ dl_saved' = dl_log
    /\ Leave(dl_src)
    /\ UNCHANGED <<dl_target, dl_skip_pdf, dl_log, dl_already, dl_total_downloaded, dl_batch,
                   dl_done, dl_failed>>
    /\ UNCHANGED <<aggVars, tokVars, mergeVars, stripVars, rankVars, mainVars, epubVars>>

\* --------------------------------------------------------------------------
\* Specifications
\* --------------------------------------------------------------------------
Init == AggInit /\ TokIdle /\ MergeIdle /\ StripIdle /\ RestIdle

Next ==
    \/ Enter
    \/ \E w \in Workers : WorkerTake(w)
    \/ \E w \in Workers : WorkerDone(w)
    \/ Collect
    \/ Return

\* one call of build_frequency_counter
Spec == Init /\ [][Next]_vars

TokSpecInit == TokInit /\ AggIdle /\ MergeIdle /\ StripIdle /\ RestIdle
TokNext == Tokenize
TokSpec == TokSpecInit /\ [][TokNext]_vars

MergeSpecInit == MergeInit /\ AggIdle /\ TokIdle /\ StripIdle /\ RestIdle
MergeNext == Merge
MergeSpec == MergeSpecInit /\ [][MergeNext]_vars

StripSpecInit == StripInit /\ AggIdle /\ TokIdle /\ MergeIdle /\ RestIdle
StripNext == StripOnce \/ StripTwice
StripSpec == StripSpecInit /\ [][StripNext]_vars

\* one run of main
MainSpecInit ==
    MainInit /\ TokIdle /\ MergeIdle /\ StripIdle /\ RankIdle /\ EpubIdle /\ DlIdle
MainNext ==
    \/ CollectFiles
    \/ Enter
    \/ \E w \in Workers : WorkerTake(w)
    \/ \E w \in Workers : WorkerDone(w)
    \/ Collect
    \/ Return
    \/ Summary
    \/ Swadesh
    \/ GenerateHtml
    \/ GenerateFreqTxt
MainSpec == MainSpecInit /\ [][MainNext]_vars
\* once build_frequency_counter has returned, main goes on to its next
\* statement; nothing is assumed of the speed of the workers
MainLive == MainSpec /\ WF_vars(Summary)

EpubSpecInit ==
    EpubInit /\ AggIdle /\ TokIdle /\ MergeIdle /\ StripIdle /\ RankIdle /\ MainIdle /\ DlIdle
EpubNext == EpubExtract \/ EpubTokenize
EpubSpec == EpubSpecInit /\ [][EpubNext]_vars

\* one run of download_books.py
DlSpecInit ==
    DlInit /\ AggIdle /\ TokIdle /\ MergeIdle /\ StripIdle /\ RankIdle /\ MainIdle /\ EpubIdle
DlNext == DlStart \/ BeginSource \/ Download \/ EndSource
DlSpec == DlSpecInit /\ [][DlNext]_vars

\* a vocabulary word through the tokenizer and the ranker
VocSpecInit ==
    VocInit /\ AggIdle /\ MergeIdle /\ StripIdle /\ RankIdle /\ MainIdle /\ EpubIdle /\ DlIdle
VocNext == Tokenize \/ RankTokens
VocSpec == VocSpecInit /\ [][VocNext]_vars

RankSpecInit ==
    RankInit /\ AggIdle /\ TokIdle /\ MergeIdle /\ StripIdle /\ MainIdle /\ EpubIdle /\ DlIdle
RankNext == Rank \/ TierCoverage
RankSpec == RankSpecInit /\ [][RankNext]_vars

\* --------------------------------------------------------------------------
\* Properties
\* --------------------------------------------------------------------------
\* the file at position i of the list yields a Counter (a non-null result)
Contributes(files, i) == process_single_file(files[i]).tag = "result"

RECURSIVE SumOver(_, _, _)
\* the occurrences of key k in the files of the list, position i onward, each
\* file counted on its own
SumOver(files, k, i) ==
    IF i > Len(files) THEN 0
    ELSE (IF Contributes(files, i)
          THEN CounterGet(process_single_file(files[i]).counter, k) ELSE 0)
         + SumOver(files, k, i + 1)

\* the keys of the files of the list, each file taken on its own
KeysOver(files) ==
    UNION { CounterKeys(process_single_file(files[i]).counter) :
            i \in { j \in DOMAIN files : Contributes(files, j) } }

\* the Counter holds exactly the per-key sums of the files of the list
IsCorpusOf(counter, files) ==
    /\ CounterKeys(counter) = KeysOver(files)
    /\ \A k \in KeysOver(files) : CounterGet(counter, k) = SumOver(files, k, 1)

\* the list without its position i
Without(files, i) == SubSeq(files, 1, i - 1) \o SubSeq(files, i + 1, Len(files))

NullCount(files) == Cardinality({ i \in DOMAIN files : ~Contributes(files, i) })

\* C1: whatever the order in which the worker results arrived, the corpus
\* mapping returned by build_frequency_counter has the same keys and the same
\* count per key: the per-key sums over the documents of the list.
C1_OrderIndependent ==
    pc = "done" => IsCorpusOf(returned[1].counter, all_files)

\* C1 witness: two documents that share a word were reduced in the order
\* opposite to the list order.
C1_Witness ==
    /\ pc = "done"
    /\ all_files = <<1, 7>>
    /\ book_stats = << <<"g.TXT", 3>>, <<"a.txt", 4>> >>
    /\ CounterGet(returned[1].counter, W_du) = 2

\* C3: a document whose handler raises is isolated: the run never aborts, the
\* failure count is the failure count of the other documents plus one, and the
\* corpus mapping is the mapping of the other documents alone.
C3_FailureIsolated ==
    /\ pc # "aborted"
    /\ pc = "done" =>
         \A i \in DOMAIN all_files :
            (~Catalogue[all_files[i]].ok) =>
               /\ IsCorpusOf(returned[1].counter, Without(all_files, i))
               /\ returned[1].failed = NullCount(Without(all_files, i)) + 1

\* C3 witness: a run with a corrupt archive and a readable document has returned.
C3_Witness ==
    /\ pc = "done"
    /\ \E i \in DOMAIN all_files : ~Catalogue[all_files[i]].ok
    /\ Len(book_stats) >= 1
    /\ n_failed = 1

HasHandler(f) == ExtLower(Catalogue[f].ext) \in {".txt", ".pdf", ".epub"}

\* C4: a list made only of documents of unsupported formats yields an empty
\* corpus mapping, no Document Statistics and a failure count of 0.
C4_UnsupportedNotFailed ==
    (pc = "done" /\ \A i \in DOMAIN all_files : ~HasHandler(all_files[i])) =>
        /\ returned[1].counter = EmptyCounter
        /\ returned[1].stats = <<>>
        /\ returned[1].failed = 0

\* the extracted text of file f has exactly n characters
ExtractedLen(f, n) == extract_text(f).tag = "str" /\ Len(extract_text(f).val) = n

\* C5: when the result of a document whose extracted text has exactly 99
\* characters is reduced, it is null and the failure count grows by one; with
\* exactly 100 characters it is non-null, one Document Statistic is added and
\* the failure count stays.
C5_MinLengthBoundary ==
    [][(pc = "collect" /\ outq # <<>> /\ n_done' = n_done + 1) =>
        LET f == all_files[Head(outq).doc]
            result == Head(outq).res
        IN /\ ExtractedLen(f, 99) =>
                /\ result.tag = "None"
                /\ n_failed' = n_failed + 1
                /\ book_stats' = book_stats
           /\ ExtractedLen(f, 100) =>
                /\ result.tag = "result"
                /\ n_failed' = n_failed
                /\ Len(book_stats') = Len(book_stats) + 1
                /\ book_stats'[Len(book_stats')][1] = basename(f)]_vars

\* C5 witness: a run over a 99-character and a 100-character document has returned.
C5_Witness ==
    /\ pc = "done"
    /\ \E i \in DOMAIN all_files : ExtractedLen(all_files[i], 99)
    /\ \E i \in DOMAIN all_files : ExtractedLen(all_files[i], 100)
    /\ n_failed = 1 /\ Len(book_stats) = 1

\* C6: on an empty document list the call returns an empty mapping, an empty
\* statistics list and failure count 0, and no pool is ever created.
C6_EmptyList ==
    all_files = <<>> =>
        /\ pc \in {"start", "done"}
        /\ pool = "none" /\ taskq = <<>> /\ outq = <<>>
        /\ \A w \in Workers : busy[w] = <<>>
        /\ pc = "done" => returned = <<Triple(EmptyCounter, <<>>, 0)>>

\* C6 witness: the call on the empty list has returned.
C6_Witness == all_files = <<>> /\ pc = "done" /\ returned # <<>>

\* C2: the merge is commutative and associative on Counters.
C2_MergeCommAssoc ==
    mg_out # <<>> =>
        /\ CounterEq(mg_out[1].ab, mg_out[1].ba)
        /\ CounterEq(mg_out[1].ab_c, mg_out[1].a_bc)

\* C2 witness: two Counters that share a key with different counts were merged
\* both ways, and the two results list their keys in different orders.
C2_Witness ==
    /\ mg_out # <<>>
    /\ mg_a = <<[k |-> W_jag, n |-> 1]>>
    /\ mg_b = <<[k |-> W_du, n |-> 2], [k |-> W_jag, n |-> 2]>>
    /\ mg_out[1].ab # mg_out[1].ba
    /\ CounterGet(mg_out[1].ab, W_jag) = 3

\* the text is one letter run, repeated
Uniform(words) == Len(words) >= 1 /\ \A i \in DOMAIN words : words[i] = words[1]

\* the number of runs of the text that are w once lowercased
Occ(words, w) == Cardinality({ i \in DOMAIN words : LowerText(words[i]) = w })

Dropped == ENGLISH_STOPWORDS \ SHARED_WORDS

\* C7 as stated: a text made of one token of the letter class, of length 1 to
\* 40, repeated N times, tokenizes to exactly that token mapped to N.
C7_AsStated ==
    (tk_out # <<>> /\ Uniform(tk_words) /\ Len(tk_words[1]) \in 1..40) =>
        tk_out[1] = <<[k |-> tk_words[1], n |-> Len(tk_words)]>>

\* C7 amended: a text made of one token of the letter class, of length 1 to 40
\* and not a stoplist word outside the allow-list, repeated N times, tokenizes
\* to exactly the lowercased token mapped to N.
C7_RepeatedToken ==
    (tk_out # <<>> /\ Uniform(tk_words) /\ Len(tk_words[1]) \in 1..40
        /\ LowerText(tk_words[1]) \notin Dropped) =>
        tk_out[1] = <<[k |-> LowerText(tk_words[1]), n |-> Len(tk_words)]>>

\* C7 witness: a capitalised token repeated twice was tokenized.
C7_Witness ==
    /\ tk_words = <<W_Jag, W_Jag>>
    /\ tk_out = << <<[k |-> W_jag, n |-> 2]>> >>

\* C8: every key has length 1 to 40; a run of exactly 40 letters is counted as
\* one token; a run of 41 letters is dropped whole, no piece of it is a key.
C8_LengthBounds ==
    tk_out # <<>> =>
        /\ \A k \in CounterKeys(tk_out[1]) : Len(k) >= 1 /\ Len(k) <= 40
        /\ CounterGet(tk_out[1], Run40) = Occ(tk_words, Run40)
        /\ \A k \in CounterKeys(tk_out[1]) : Occ(tk_words, k) >= 1

\* C8 witness: a text with a run of 40 and a run of 41 letters was tokenized.
C8_Witness ==
    /\ tk_out # <<>>
    /\ Len(Run40) = 40 /\ Len(Run41) = 41
    /\ \E i \in DOMAIN tk_words : tk_words[i] = Run40
    /\ \E i \in DOMAIN tk_words : tk_words[i] = Run41
    /\ CounterKeys(tk_out[1]) = {Run40}

\* C9: a stoplist word of the allow-list is counted at each of its occurrences,
\* a stoplist word outside the allow-list is never a key, in any letter case.
C9_StoplistAllowlist ==
    tk_out # <<>> =>
        \A w \in ENGLISH_STOPWORDS :
            IF w \in SHARED_WORDS
            THEN CounterGet(tk_out[1], w) = Occ(tk_words, w)
            ELSE w \notin CounterKeys(tk_out[1])

\* C9 witness: a text with "IS" and "The" was tokenized, "is" is counted.
C9_Witness ==
    /\ tk_out # <<>>
    /\ \E i \in DOMAIN tk_words : tk_words[i] = W_IS
    /\ \E i \in DOMAIN tk_words : tk_words[i] = W_The
    /\ W_is \in ENGLISH_STOPWORDS \cap SHARED_WORDS
    /\ W_the \in Dropped
    /\ CounterGet(tk_out[1], W_is) = 1

OccursAt(t, m, p) == p + Len(m) <= Len(t) /\ SubSeq(t, p + 1, p + Len(m)) = m

\* the positions of the text at which a marker of the list begins
MarkerHits(t, markers) ==
    { p \in 0..Len(t) : \E j \in DOMAIN markers : OccursAt(t, markers[j], p) }

\* C10 as stated: stripping is idempotent on every text.
C10_AsStated ==
    st_twice # <<>> => st_twice[1] = st_once[1]

\* C10 amended: stripping is idempotent on every text in which a start marker
\* begins at no more than one position and an end marker at no more than one.
C10_IdempotentSingleMarkers ==
    (st_twice # <<>>
        /\ Cardinality(MarkerHits(st_text, START_MARKERS)) <= 1
        /\ Cardinality(MarkerHits(st_text, END_MARKERS)) <= 1) =>
        st_twice[1] = st_once[1]

\* C10 witness: a text with one start marker line and one end marker was
\* stripped on both sides, then stripped again.
C10_Witness ==
    /\ st_twice # <<>>
    /\ Cardinality(MarkerHits(st_text, START_MARKERS)) = 1
    /\ Cardinality(MarkerHits(st_text, END_MARKERS)) = 1
    /\ st_once[1] = <<" ","j","a","g">>
    /\ st_twice[1] = st_once[1]

\* ---- the ranker
VocWords == { SWADESH_SWEDISH[i].sv : i \in DOMAIN SWADESH_SWEDISH }

\* the place of a vocabulary word in SWADESH_SWEDISH
VocPos == [w \in VocWords |-> CHOOSE i \in DOMAIN SWADESH_SWEDISH : SWADESH_SWEDISH[i].sv = w]

\* C11: the list returned by build_swadesh_data is sorted by frequency in
\* non-increasing order, and entries of equal frequency stand in the order
\* they have in the reference vocabulary
C11_SortedStable ==
    rk_data # <<>> =>
        LET d == rk_data[1] IN
        \A i \in 1..(Len(d) - 1) :
            /\ d[i].freq >= d[i + 1].freq
            /\ d[i].freq = d[i + 1].freq => VocPos[d[i].sv] < VocPos[d[i + 1].sv]

\* a list whose first entry was moved to the front over words that precede it
\* in the vocabulary, followed by a tie of two words found once, and ending in
\* the words not found
C11_Witness ==
    /\ rk_data # <<>>
    /\ LET d == rk_data[1] IN
       /\ d[1].freq = 2 /\ d[2].freq = 1 /\ d[3].freq = 1
       /\ VocPos[d[1].sv] > VocPos[d[2].sv]
       /\ d[Len(d)].freq = 0 /\ d[Len(d) - 1].freq = 0

\* C12: the ranked list is a full join of the vocabulary with the corpus
\* mapping: every vocabulary word exactly once, with its meaning, with the
\* corpus count of the word or 0, and no entry for a word outside it
C12_FullJoin ==
    rk_data # <<>> =>
        LET d == rk_data[1] IN
        /\ Len(d) = Len(SWADESH_SWEDISH)
        /\ \A j \in DOMAIN d : d[j].sv \in VocWords
        /\ { VocPos[d[j].sv] : j \in DOMAIN d } = DOMAIN SWADESH_SWEDISH
        /\ \A j \in DOMAIN d :
              /\ d[j].en = SWADESH_SWEDISH[VocPos[d[j].sv]].en
              /\ d[j].freq = CounterGet(rk_corpus, d[j].sv)

\* the corpus holds a word outside the vocabulary, vocabulary words found
\* twice and once, and lacks other vocabulary words
C12_Witness ==
    /\ rk_data # <<>>
    /\ W_hej \in CounterKeys(rk_corpus) /\ W_hej \notin VocWords
    /\ \E i, j, k \in DOMAIN rk_data[1] :
          rk_data[1][i].freq = 2 /\ rk_data[1][j].freq = 1 /\ rk_data[1][k].freq = 0

\* C13: with a total word count of 0 compute_tier_coverage returns 0 for the
\* three tiers, whatever the ranked list, and no division is attempted
C13_ZeroTotal ==
    (rk_tiers # <<>> /\ rk_total = <<0>>) => rk_tiers[1] = Tiers(0, 0, 0)

\* a total of 0 passed with a ranked list that holds positive frequencies
C13_Witness ==
    /\ rk_tiers # <<>> /\ rk_total = <<0>>
    /\ rk_data[1][1].freq > 0
    /\ rk_tiers[1] = Tiers(0, 0, 0)

\* C14: for a non-empty corpus and the ranked list built from it, each of the
\* three rounded percentages lies in [0,100] and their sum is at most 100
\* (percentages in tenths)
C14_TiersWithin100 ==
    (rk_tiers # <<>> /\ rk_total = <<CounterTotal(rk_corpus)>> /\ rk_total[1] > 0) =>
        LET t == rk_tiers[1] IN
        /\ t.tier1 \in 0..1000 /\ t.tier2 \in 0..1000 /\ t.tier3 \in 0..1000
        /\ t.tier1 + t.tier2 + t.tier3 <= 1000

\* ---- one run of main
\* main has received the result of build_frequency_counter
Summarised == main_pc \in {"rank", "render", "freq_txt", "exit"} /\ pc = "done"

SingleTxt == Len(all_files) = 1 /\ ExtLower(Catalogue[all_files[1]].ext) = ".txt"

\* the place of word sv in the ranked list of main
RankOf(sv) == CHOOSE j \in DOMAIN main_swadesh[1] : main_swadesh[1][j].sv = sv

JagDuCounts == <<[k |-> W_jag, n |-> 3], [k |-> W_du, n |-> 1]>>

\* C15 as the claim states it: for every run on a single plain-text document
\* the corpus mapping equals the token counts of the document
C15_AsStated ==
    (Summarised /\ SingleTxt) =>
        CounterEq(returned[1].counter, tokenize_and_count(Catalogue[all_files[1]].chars))

\* C15: on a single plain-text document whose text, after the removal of the
\* boilerplate, has at least 100 characters, the corpus mapping equals the
\* token counts of that text, the total is their sum, and a ranked list, once
\* built, carries those counts; the document of "jag jag du Jag" padded with
\* spaces to 100 characters gives {jag: 3, du: 1}, total 4, "jag" with
\* frequency 3 ranked above "du" with frequency 1
C15_EndToEnd ==
    (Summarised /\ SingleTxt
       /\ Len(strip_gutenberg_boilerplate(Catalogue[all_files[1]].chars)) >= MinTextLen) =>
        LET text == strip_gutenberg_boilerplate(Catalogue[all_files[1]].chars)
            counts == tokenize_and_count(text)
        IN /\ CounterEq(returned[1].counter, counts)
           /\ main_total_words = CounterTotal(counts)
           /\ main_swadesh # <<>> =>
                 \A j \in DOMAIN main_swadesh[1] :
                     main_swadesh[1][j].freq = CounterGet(counts, main_swadesh[1][j].sv)
           /\ text = Pad(TextJagDu, MinTextLen) =>
                 /\ CounterEq(returned[1].counter, JagDuCounts)
                 /\ main_total_words = 4
                 /\ main_swadesh # <<>> =>
                       /\ main_swadesh[1][RankOf(W_jag)].freq = 3
                       /\ main_swadesh[1][RankOf(W_du)].freq = 1
                       /\ RankOf(W_jag) < RankOf(W_du)

\* the run on the one document "jag jag du Jag" (padded) has ended well
C15_Witness ==
    /\ main_exit = <<0>>
    /\ SingleTxt /\ Catalogue[all_files[1]].chars = Pad(TextJagDu, MinTextLen)
    /\ main_swadesh[1][1].sv = W_jag /\ main_swadesh[1][1].freq = 3
    /\ main_swadesh[1][2].sv = W_du /\ main_swadesh[1][2].freq = 1

Pdfs == { i \in DOMAIN all_files : ExtLower(Catalogue[all_files[i]].ext) = ".pdf" }

PdfWarnings == { j \in DOMAIN main_out : main_out[j].msg = "WARNING: .pdf files" }

\* C17: without the PDF decoder every PDF gives a null result that is not
\* counted in the failure count, the number of PDFs is reported on its own,
\* and one warning is printed for the run, none per file
C17_PdfSkippedNotFailed ==
    (Summarised /\ ~PDF_SUPPORT) =>
        /\ \A i \in Pdfs : Handle(all_files[i]) = None
        /\ \A i \in Pdfs : process_single_file(all_files[i]) = None
        /\ returned[1].failed =
              Cardinality({ i \in DOMAIN all_files \ Pdfs :
                              process_single_file(all_files[i]) = None })
        /\ Cardinality(PdfWarnings) = IF Pdfs = {} THEN 0 ELSE 1
        /\ \A j \in PdfWarnings : main_out[j].n = Cardinality(Pdfs)

\* the run has ended on the empty corpus
EmptyCorpusExit ==
    /\ main_pc = "exit" /\ main_exit = <<1>>
    /\ main_out[Len(main_out)].msg = "ERROR: No words extracted."

\* C18: a run whose aggregation ends with zero total words reaches the
\* terminal empty-corpus state with a non-zero exit status; in such a run the
\* ranker has not run and no report has been written; and a run in which a
\* word was extracted ends with an error only for the missing template
C18_EmptyCorpusTerminal ==
    /\ ((main_pc = "aggregate" /\ pc = "done" /\ CounterTotal(returned[1].counter) = 0)
           ~> EmptyCorpusExit)
    /\ []((main_pc # "off" /\ pc = "done" /\ CounterTotal(returned[1].counter) = 0) =>
             (main_swadesh = <<>> /\ main_tiers = <<>> /\ main_written = <<>>))
    /\ []((main_exit = <<1>> /\ pc = "done" /\ CounterTotal(returned[1].counter) > 0) =>
             main_out[Len(main_out)].msg = "ERROR: template.html not found")

\* the run over two documents that both failed has ended on the empty corpus
C18_Witness ==
    /\ EmptyCorpusExit
    /\ returned[1].failed = 2
    /\ main_swadesh = <<>> /\ main_written = <<>>

AllWorkersEnded == pool # "running" /\ \A w \in Workers : busy[w] = <<>>

\* C19: the pool runs only inside the call of build_frequency_counter: when
\* the call has returned every worker has ended, and the ranker has run only
\* after all workers ended and all results were reduced
C19_PoolScoped ==
    /\ pool = "running" => pc = "collect"
    /\ pc = "done" => (AllWorkersEnded /\ taskq = <<>> /\ outq = <<>>)
    /\ main_swadesh # <<>> =>
          (pc = "done" /\ AllWorkersEnded /\ n_done = n_total /\ taskq = <<>> /\ outq = <<>>)

\* the ranker has run after a pool of two workers reduced three documents
C19_Witness ==
    /\ main_swadesh # <<>>
    /\ pool = "terminated" /\ num_workers = 2 /\ n_total = 3 /\ n_done = 3

\* ---- the EPUB extractor
\* the text nodes of an entry joined by a space, as they should come out
TextOf(e) ==
    CASE e = E_c1 -> <<"H","e","j">>
      [] e = E_c2 -> <<"H","e","j"," ","i","g","e","n">>
      [] e = E_c3 -> <<"d","u"," "," ","j","a","g">>
      [] OTHER -> <<>>

\* the words of an entry, as they should be counted
WordsOf(e) ==
    CASE e = E_c1 -> <<W_hej>>
      [] e = E_c2 -> <<W_hej, <<"i","g","e","n">>>>
      [] e = E_c3 -> <<W_du, W_jag>>
      [] OTHER -> <<>>

HasMarkupName(e) == e \in {E_c1, E_c2, E_c3}

\* the number of times word w should be counted in archive a
RECURSIVE Expected(_, _, _)
Expected(a, w, i) ==
    IF i > Len(a) THEN 0
    ELSE (IF HasMarkupName(a[i]) THEN Occ(WordsOf(a[i]), w) ELSE 0) + Expected(a, w, i + 1)

\* C16: the extracted text is the tag-stripped text of the entries named
\* .html, .xhtml or .htm in any letter case, in listing order, joined by a
\* separator; its tokens are the words of those entries, so the entries
\* "<p>Hej</p>" and "<p>Hej igen</p>" give {hej: 2, igen: 1}, and the other
\* entries add nothing
C16_EpubExtraction ==
    /\ ep_text # <<>> =>
          LET kept == SelectSeq(ep_entries, HasMarkupName)
          IN ep_text[1] = Join([i \in DOMAIN kept |-> TextOf(kept[i])], <<"\n">>)
    /\ ep_count # <<>> =>
          /\ \A w \in CounterKeys(ep_count[1]) \cup {W_hej, W_du, W_jag, <<"h","u","n","d">>} :
                CounterGet(ep_count[1], w) = Expected(ep_entries, w, 1)
          /\ SelectSeq(ep_entries, HasMarkupName) = <<E_c1, E_c2>> =>
                CounterEq(ep_count[1], <<[k |-> W_hej, n |-> 2],
                                         [k |-> <<"i","g","e","n">>, n |-> 1]>>)

\* the archive of the two markup entries after an entry that is no markup
C16_Witness ==
    /\ ep_entries = <<E_mimetype, E_c1, E_c2>>
    /\ ep_text = << <<"H","e","j","\n","H","e","j"," ","i","g","e","n">> >>
    /\ ep_count # <<>>
    /\ CounterGet(ep_count[1], W_hej) = 2

\* ---- download_books.py
\* the keys this run added to the list of downloaded books
Added == { dl_log.downloaded[i] : i \in DOMAIN dl_log.downloaded } \ dl_already

\* C20: from a log with fewer than `limit` downloaded entries the running
\* total never exceeds the limit, whatever succeeds and fails in the three
\* sources; no download is attempted once the total has reached the limit;
\* and from a log with `limit` or more entries nothing is downloaded
C20_LimitIsMaximum ==
    /\ []((dl_pc \notin {"off", "start"} /\ Cardinality(dl_already) < dl_target) =>
             /\ dl_total_downloaded <= dl_target
             /\ Len(dl_log.downloaded) <= dl_target
             /\ dl_total_downloaded = Len(dl_log.downloaded))
    /\ [][dl_done' = dl_done + 1 => dl_total_downloaded < dl_target]_vars
    /\ []((dl_pc \notin {"off", "start"} /\ Cardinality(dl_already) >= dl_target) =>
             /\ dl_pc = "returned"
             /\ dl_log = dl_saved /\ Added = {}
             /\ dl_batch = <<>> /\ dl_done = 0 /\ dl_failed = 0)

\* a run that began below the limit, met a failed download, and reached the
\* limit with books of the first and of the third source
C20_Witness ==
    /\ dl_pc = "returned"
    /\ Cardinality(dl_already) < dl_target
    /\ dl_total_downloaded = dl_target
    /\ dl_log.failed # <<>>
    /\ \E id1, id3 \in 1..MaxIds : {Key(1, id1), Key(3, id3)} \subseteq Added

\* ---- the progress reports and the accounting of the reduction loop
RECURSIVE LenSum(_, _)
LenSum(seqs, i) == IF i > Len(seqs) THEN 0 ELSE Len(seqs[i]) + LenSum(seqs, i + 1)

\* the positions of the list whose result the loop has not yet received: in a
\* chunk of the task queue, in the chunk of a worker, among the arrived results
PendingDocs ==
    UNION { { taskq[j][i] : i \in DOMAIN taskq[j] } : j \in DOMAIN taskq }
    \cup UNION { { busy[w][i] : i \in DOMAIN busy[w] } : w \in DOMAIN busy }
    \cup { outq[j].doc : j \in DOMAIN outq }

PendingCount == LenSum(taskq, 1) + LenSum(busy, 1) + Len(outq)

\* C21: one progress report per arriving result and none otherwise; report i
\* carries completed = i, the total, and a failure count that never decreases;
\* the report is made after the reduction of its result (it carries the
\* counters as that reduction left them); the last report has completed =
\* total; every document of the list is awaited in exactly one place until its
\* result is received, so each is accounted for exactly once
C21_ProgressPerResult ==
    /\ [](/\ Len(progress) = n_done
          /\ \A i \in DOMAIN progress :
                /\ progress[i][1] = i
                /\ progress[i][2] = n_total
                /\ progress[i][3] >= (IF i = 1 THEN 0 ELSE progress[i - 1][3])
                /\ progress[i][3] <= i
          /\ progress # <<>> => progress[Len(progress)] = <<n_done, n_total, n_failed>>
          /\ (pc = "done" /\ all_files # <<>>) => progress[Len(progress)][1] = Len(all_files)
          /\ pc = "done" => Len(progress) = Len(all_files)
          /\ pc = "collect" =>
                /\ PendingDocs \subseteq 1..n_total
                /\ PendingCount = Cardinality(PendingDocs)
                /\ Cardinality(PendingDocs) + n_done = n_total)
    /\ [][/\ (Len(outq') = Len(outq) - 1) <=> (progress' # progress)
          /\ (progress' # progress) =>
                /\ progress' = Append(progress, <<n_done + 1, n_total, n_failed'>>)
                /\ n_done' = n_done + 1
                /\ n_failed' = n_failed + (IF Head(outq).res = None THEN 1 ELSE 0)
                /\ Len(book_stats') = Len(book_stats) + (IF Head(outq).res = None THEN 0 ELSE 1)
                /\ n_done' = n_failed' + Len(book_stats')]_vars

\* three documents were reduced, the second result a failure: three reports
C21_Witness ==
    /\ pc = "done"
    /\ progress = << <<1, 3, 0>>, <<2, 3, 1>>, <<3, 3, 1>> >>
    /\ Len(book_stats) = 2

\* ---- the stripper, start side
HasStart(t) == \E j \in DOMAIN START_MARKERS : Find(t, START_MARKERS[j]) # -1
HasEnd(t) == \E j \in DOMAIN END_MARKERS : Find(t, END_MARKERS[j]) # -1

\* the first marker of the priority order that occurs anywhere in the text
ChosenStart(t) == START_MARKERS[SetMin({ j \in DOMAIN START_MARKERS : Find(t, START_MARKERS[j]) # -1 })]

\* the text that follows the line holding the first occurrence of marker m:
\* what follows the line's newline, nothing when the line is the last one
AfterLineOf(t, m) ==
    LET nl == FindFrom(t, <<"\n">>, Find(t, m)) IN
    IF nl = -1 THEN <<>> ELSE SliceFrom(t, nl + 1)

\* C22 as the claim states it: when the text holds a start marker, the output
\* is taken from what follows the line of the first occurrence of the marker
\* that comes first in the priority order (that text, cut at the end marker),
\* so it holds nothing from the beginning of the text up to and including that
\* line; a text with no start marker and no end marker is returned unchanged
C22_StartLineDiscarded ==
    st_once # <<>> =>
        /\ HasStart(st_text) =>
              st_once[1] = StripEndLoop(AfterLineOf(st_text, ChosenStart(st_text)), 1)
        /\ (~HasStart(st_text) /\ ~HasEnd(st_text)) => st_once[1] = st_text

\* ---- the worker: extraction, stripping, tokenization
\* the raw text of a readable document, as its format's decoder gives it
RawText(f) ==
    LET ext == ExtLower(Catalogue[f].ext) IN
    CASE ext = ".txt" -> Catalogue[f].chars
      [] ext = ".pdf" -> Join(Catalogue[f].pages, <<"\n">>)
      [] ext = ".epub" -> EpubText(Catalogue[f].entries)

\* the raw text of file f holds a marker
HasMarker(f) == HasStart(RawText(f)) \/ HasEnd(RawText(f))

\* C23 as the claim states it: for a document of any of the three formats, the
\* mapping the worker returns is the token count of the stripped raw text, so
\* no word before a start marker or after an end marker is counted
C23_StrippedBeforeTokenized ==
    \A j \in DOMAIN outq :
        outq[j].res.tag = "result" =>
            CounterEq(outq[j].res.counter,
                      tokenize_and_count(strip_gutenberg_boilerplate(RawText(all_files[outq[j].doc]))))

\* ---- the reports under every arrival order
RECURSIVE InOrder(_, _, _)
\* the triple build_frequency_counter returns when the results arrive in the
\* order of the list
InOrder(files, i, acc) ==
    IF i > Len(files) THEN acc
    ELSE LET r == process_single_file(files[i]) IN
         InOrder(files, i + 1,
                 IF r.tag = "result"
                 THEN Triple(CounterUpdate(acc.counter, r.counter),
                             Append(acc.stats, <<basename(files[i]), CounterTotal(r.counter)>>),
                             acc.failed)
                 ELSE Triple(acc.counter, acc.stats, acc.failed + 1))

ListOrderRun == InOrder(all_files, 1, Triple(EmptyCounter, <<>>, 0))

FreqTxtWritten ==
    { i \in DOMAIN main_written : main_written[i].name = "swedish_word_frequencies.txt" }

\* C24 as the claim states it: whatever the order in which the results
\* arrived, the ranked vocabulary list and every line of the flat frequency
\* report, the order of the words of equal frequency included, are those of
\* the run in which the results arrive in the order of the list
C24_ReportsReproducible ==
    /\ main_swadesh # <<>> => main_swadesh[1] = build_swadesh_data(ListOrderRun.counter)
    /\ \A i \in FreqTxtWritten :
          main_written[i].content =
              write_freq_txt(ListOrderRun.counter, ListOrderRun.stats,
                             CounterTotal(ListOrderRun.counter))

\* the Document Statistic of the file at position i of the list
StatOf(files, i) ==
    <<basename(files[i]), CounterTotal(process_single_file(files[i]).counter)>>

\* C25: at every point of the reduction loop completed = failed + number of
\* Document Statistics and 0 <= failed <= completed <= total; on return the
\* statistics and the failures add up to the number of input documents; each
\* reduction of a non-null result appends exactly one statistic, the base name
\* of its path with the sum of its counts, a null result appends none, so the
\* statistics returned are those of the documents with a non-null result,
\* one each
C25_DoneIsFailedPlusStats ==
    /\ [](/\ n_done = n_failed + Len(book_stats)
          /\ 0 <= n_failed /\ n_failed <= n_done /\ n_done <= n_total
          /\ pc = "done" =>
                /\ Len(returned[1].stats) + returned[1].failed = Len(all_files)
                /\ Len(returned[1].stats) =
                      Cardinality({ i \in DOMAIN all_files : Contributes(all_files, i) })
                /\ \A i \in DOMAIN all_files :
                      Contributes(all_files, i) =>
                         Cardinality({ j \in DOMAIN returned[1].stats :
                                         returned[1].stats[j] = StatOf(all_files, i) }) = 1)
    /\ [][n_done' = n_done + 1 =>
             LET result == Head(outq).res IN
             IF result = None
             THEN book_stats' = book_stats /\ n_failed' = n_failed + 1
             ELSE /\ n_failed' = n_failed
                  /\ book_stats' = Append(book_stats, <<Catalogue[result.filepath].base,
                                                        CounterTotal(result.counter)>>)
                  /\ result.filepath = all_files[Head(outq).doc]]_vars

\* a run over three documents, two of them failing, has returned one statistic
C25_Witness ==
    /\ pc = "done" /\ n_total = 3
    /\ returned[1].failed = 2
    /\ returned[1].stats = << <<"g.TXT", 3>> >>

RECURSIVE SumStats(_, _)
\* the sum of the word counts of the statistics list, position i onward
SumStats(stats, i) == IF i > Len(stats) THEN 0 ELSE stats[i][2] + SumStats(stats, i + 1)

\* C26: at every point of the reduction loop the word counts recorded in the
\* Document Statistics add up to the sum of the counts of the corpus mapping;
\* so do the returned statistics and the returned mapping, and the total word
\* count main computes from the mapping is the sum of the per-document counts
C26_StatsSumIsCorpusTotal ==
    /\ SumStats(book_stats, 1) = CounterTotal(total_counter)
    /\ pc = "done" => SumStats(returned[1].stats, 1) = CounterTotal(returned[1].counter)
    /\ Summarised => main_total_words = SumStats(returned[1].stats, 1)

\* main has the total of a run over two documents that share a word
C26_Witness ==
    /\ Summarised
    /\ returned[1].stats = << <<"g.TXT", 3>>, <<"a.txt", 4>> >>
    /\ CounterGet(returned[1].counter, W_du) = 2
    /\ main_total_words = 7

\* the number of times pair p stands in the list
CountIn(stats, p) == Cardinality({ j \in DOMAIN stats : stats[j] = p })

\* the two lists hold the same pairs the same number of times
SameMultiset(a, b) ==
    /\ Len(a) = Len(b)
    /\ \A j \in DOMAIN a : CountIn(a, a[j]) = CountIn(b, a[j])

\* C27: whatever the order in which the results arrived, the failure count
\* returned and the multiset of the Document Statistics returned are those of
\* the run in which the results arrive in the order of the list; the order of
\* the statistics list is the order of arrival
C27_StatsOrderIndependent ==
    pc = "done" =>
        /\ returned[1].failed = ListOrderRun.failed
        /\ SameMultiset(returned[1].stats, ListOrderRun.stats)

\* a run over three documents with one failure in which the statistics came
\* out in an order other than that of the list
C27_Witness ==
    /\ pc = "done"
    /\ all_files = <<1, 2, 4>>
    /\ returned[1].failed = 1
    /\ returned[1].stats = << <<"d.epub", 5>>, <<"a.txt", 4>> >>
    /\ ListOrderRun.stats = << <<"a.txt", 4>>, <<"d.epub", 5>> >>

\* ---- the vocabulary through the tokenizer
\* C28: every word of SWADESH_SWEDISH is made of lowercase letters of the
\* class of the tokenizer, has 1 to 40 letters, and is no stoplist word
\* outside the allow-list; every occurrence of a vocabulary word in a text, in
\* any letter case, is counted by the tokenizer, and the ranked list built
\* from the counts carries that number as the word's frequency
C28_VocabularyNeverSuppressed ==
    /\ \A v \in VocWords :
          /\ \A i \in DOMAIN v : v[i] \in LowerSet /\ v[i] \in WordClass
          /\ Len(v) >= 1 /\ Len(v) <= MaxTokenLen
          /\ v \notin ENGLISH_STOPWORDS \/ v \in SHARED_WORDS
    /\ tk_out # <<>> =>
          \A v \in VocWords : CounterGet(tk_out[1], v) = Occ(tk_words, v)
    /\ rk_data # <<>> =>
          \A j \in DOMAIN rk_data[1] : rk_data[1][j].freq = Occ(tk_words, rk_data[1][j].sv)

\* the stoplist word of the vocabulary, "is", written in capitals twice after
\* a noise word, was counted twice and ranked first
C28_Witness ==
    /\ tk_words = <<W_The, W_IS, W_IS>>
    /\ W_is \in VocWords /\ W_is \in ENGLISH_STOPWORDS
    /\ tk_out = << <<[k |-> W_is, n |-> 2]>> >>
    /\ rk_data # <<>>
    /\ rk_data[1][1].sv = W_is /\ rk_data[1][1].freq = 2

\* ---- the tiers of the ranked list
\* the frequencies found at the ranks lo..hi of the list
FreqsAt(d, lo, hi) == { d[i].freq : i \in { j \in DOMAIN d : lo <= j /\ j <= hi } }

AtLeast(F, G) == \A a \in F, b \in G : a >= b

\* C29: in the ranked list every entry of ranks 1-50 has a frequency at least
\* that of every entry of ranks 51-100, and those at least that of every entry
\* of ranks 101 on; the tier1 coverage returned is at least the tier2
\* coverage; and the three tiers count every entry once: the three
\* percentages (in tenths) add up to the share of all the vocabulary
\* occurrences in the total, within the rounding of three values
C29_TiersOrderedPartition ==
    /\ rk_data # <<>> =>
          LET d == rk_data[1] IN
          /\ TIER1_SIZE < TIER2_SIZE /\ TIER2_SIZE < Len(d)
          /\ AtLeast(FreqsAt(d, 1, TIER1_SIZE), FreqsAt(d, TIER1_SIZE + 1, TIER2_SIZE))
          /\ AtLeast(FreqsAt(d, TIER1_SIZE + 1, TIER2_SIZE), FreqsAt(d, TIER2_SIZE + 1, Len(d)))
    /\ rk_tiers # <<>> => rk_tiers[1].tier1 >= rk_tiers[1].tier2
    /\ (rk_tiers # <<>> /\ rk_total[1] > 0) =>
          LET t == rk_tiers[1]
              all == SumFreq(rk_data[1], 1, Len(rk_data[1]))
              diff == rk_total[1] * (t.tier1 + t.tier2 + t.tier3) - 1000 * all
          IN 2 * diff <= 3 * rk_total[1] /\ 2 * diff >= -3 * rk_total[1]

\* the list of 3 words found twice and 98 found once: ranks 1-50 hold both
\* frequencies, ranks 51-100 the frequency 1, ranks 101 on one word found once
\* and the words not found; tier1 is 51.0, tier2 48.1
C29_Witness ==
    /\ rk_tiers # <<>> /\ rk_total = <<104>>
    /\ FreqsAt(rk_data[1], 1, TIER1_SIZE) = {1, 2}
    /\ FreqsAt(rk_data[1], TIER1_SIZE + 1, TIER2_SIZE) = {1}
    /\ FreqsAt(rk_data[1], TIER2_SIZE + 1, Len(rk_data[1])) = {0, 1}
    /\ rk_tiers[1].tier1 = 510 /\ rk_tiers[1].tier2 = 481

====
